---- MODULE Spec2Model ----
(***************************************************************************)
(* The two scaffolding tools of go_app_base, scripts/create-module.sh and  *)
(* scripts/create-entity.sh, as a state machine over the project's files.  *)
(*                                                                         *)
(* Text is a sequence of pieces.  A name the operator types (module,      *)
(* entity, field, storage type) is a sequence of one-character strings, so *)
(* that tr, sed, awk and cut act on it character by character.  The fixed  *)
(* text of a template is cut into literal pieces at the places where a     *)
(* sed or grep pattern of the tools can start or end, so that "the line    *)
(* contains the pattern" is "the pattern is a contiguous run of pieces".   *)
(***************************************************************************)
EXTENDS Naturals, Sequences, FiniteSets, TLC

VARIABLES
    tool,               \* which script is running: "none", "module", "entity"
    pc,                 \* the stage the running script has reached
    exit_code,          \* exit status of the last finished run
    out,                \* console messages of the current / last run
    runs,               \* number of runs started so far
    MODULE_NAME,        \* script variable of both tools
    ARCH_TYPE,          \* "1" / "2" (create-module.sh), "4tier" / "ddd" (create-entity.sh)
    ENTITY_NAME,        \* create-entity.sh
    FIELDS,             \* create-entity.sh: "snake:mysql:go:camel:pascal" entries
    FIELD_NAMES,        \* create-entity.sh: accepted snake names
    field_input,        \* create-entity.sh: the line read last
    field_type_mysql,   \* create-entity.sh: derived from field_input
    field_type_go,
    field_name_snake,
    field_name_camel,
    field_name_pascal,
    dirs,               \* internal/<module> -> set of its sub-directories
    module_go,          \* internal/<module>/[infra/]module.go -> lines
    routes_go,          \* internal/<module>/[infra/web/]routes.go -> lines
    container_go,       \* cmd/server/container/container.go, lines
    register_routes_go, \* internal/infra/web/register_routes.go, lines
    gen_files           \* files written by create-entity.sh: path -> sections

vars == <<tool, pc, exit_code, out, runs, MODULE_NAME, ARCH_TYPE, ENTITY_NAME,
          FIELDS, FIELD_NAMES, field_input, field_type_mysql, field_type_go,
          field_name_snake, field_name_camel, field_name_pascal,
          dirs, module_go, routes_go, container_go, register_routes_go, gen_files>>

fsVars == <<dirs, module_go, routes_go, container_go, register_routes_go, gen_files>>

fieldVars == <<FIELDS, FIELD_NAMES, field_input, field_type_mysql, field_type_go,
               field_name_snake, field_name_camel, field_name_pascal>>

-----------------------------------------------------------------------------
(* Bounds of the model.                                                    *)

MaxRuns == 3
MaxFields == 2

-----------------------------------------------------------------------------
(* Characters and the shell's small text tools.                            *)

LowerLetters == <<"a","b","c","d","e","f","g","h","i","j","k","l","m",
                  "n","o","p","q","r","s","t","u","v","w","x","y","z">>
UpperLetters == <<"A","B","C","D","E","F","G","H","I","J","K","L","M",
                  "N","O","P","Q","R","S","T","U","V","W","X","Y","Z">>
Digits == {"0","1","2","3","4","5","6","7","8","9"}

Range(s) == {s[i] : i \in 1..Len(s)}
IsLower(c) == c \in Range(LowerLetters)
IsUpper(c) == c \in Range(UpperLetters)
IndexOf(s, c) == CHOOSE i \in 1..Len(s) : s[i] = c

\* tr '[:lower:]' '[:upper:]' and tr '[:upper:]' '[:lower:]', one character
ToUpperChar(c) == IF IsLower(c) THEN UpperLetters[IndexOf(LowerLetters, c)] ELSE c
ToLowerChar(c) == IF IsUpper(c) THEN LowerLetters[IndexOf(UpperLetters, c)] ELSE c
tr_upper(s) == [i \in 1..Len(s) |-> ToUpperChar(s[i])]
tr_lower(s) == [i \in 1..Len(s) |-> ToLowerChar(s[i])]

StartsWith(s, p) == Len(p) <= Len(s) /\ SubSeq(s, 1, Len(p)) = p
Contains(s, p) == \E i \in 0..(Len(s) - Len(p)) : SubSeq(s, i + 1, i + Len(p)) = p

RECURSIVE Flatten(_)
Flatten(ss) == IF ss = <<>> THEN <<>> ELSE Head(ss) \o Flatten(Tail(ss))

\* The fields of a line for a one-character delimiter (cut -d, awk -F).
RECURSIVE SplitOn(_, _)
SplitOn(s, d) ==
    IF d \notin Range(s) THEN <<s>>
    ELSE LET k == CHOOSE i \in 1..Len(s) : s[i] = d /\ \A j \in 1..(i - 1) : s[j] # d
         IN  <<SubSeq(s, 1, k - 1)>> \o SplitOn(SubSeq(s, k + 1, Len(s)), d)

\* cut -d':' -f<n>: a line without the delimiter is printed whole
cut(line, n) ==
    IF ":" \notin Range(line) THEN line
    ELSE LET f == SplitOn(line, ":") IN IF n <= Len(f) THEN f[n] ELSE <<>>

-----------------------------------------------------------------------------
(* Naming: to_snake_case, to_camel_case, capitalize.                       *)

\* sed -E 's/([a-z0-9])([A-Z])/\1_\2/g'
RECURSIVE sed_snake(_)
sed_snake(s) ==
    IF Len(s) < 2 THEN s
    ELSE IF (IsLower(s[1]) \/ s[1] \in Digits) /\ IsUpper(s[2])
         THEN <<s[1], "_", s[2]>> \o sed_snake(SubSeq(s, 3, Len(s)))
         ELSE <<s[1]>> \o sed_snake(Tail(s))

to_snake_case(str) == tr_lower(sed_snake(str))

\* awk -F_ '{printf "%s", $1; for(i=2; i<=NF; i++) printf "%s", toupper(substr($i,1,1)) substr($i,2)}'
awk_camel(str) ==
    LET f == SplitOn(str, "_")
        up(w) == IF w = <<>> THEN <<>> ELSE <<ToUpperChar(w[1])>> \o Tail(w)
    IN  f[1] \o Flatten([i \in 1..(Len(f) - 1) |-> up(f[i + 1])])

to_camel_case(str) == IF "_" \notin Range(str) THEN str ELSE awk_camel(str)

capitalize(str) == IF str = <<>> THEN <<>> ELSE <<ToUpperChar(str[1])>> \o Tail(str)

-----------------------------------------------------------------------------
(* Storage types: map_mysql_to_go.                                         *)

W_VARCHAR == <<"V","A","R","C","H","A","R">>
W_CHAR == <<"C","H","A","R">>
W_TEXT == <<"T","E","X","T">>
W_MEDIUMTEXT == <<"M","E","D","I","U","M","T","E","X","T">>
W_LONGTEXT == <<"L","O","N","G","T","E","X","T">>
W_TINYTEXT == <<"T","I","N","Y","T","E","X","T">>
W_INT == <<"I","N","T">>
W_TINYINT == <<"T","I","N","Y","I","N","T">>
W_SMALLINT == <<"S","M","A","L","L","I","N","T">>
W_MEDIUMINT == <<"M","E","D","I","U","M","I","N","T">>
W_BIGINT == <<"B","I","G","I","N","T">>
W_FLOAT == <<"F","L","O","A","T">>
W_DOUBLE == <<"D","O","U","B","L","E">>
W_DECIMAL == <<"D","E","C","I","M","A","L">>
W_BOOL == <<"B","O","O","L">>
W_BOOLEAN == <<"B","O","O","L","E","A","N">>
W_DATE == <<"D","A","T","E">>
W_DATETIME == <<"D","A","T","E","T","I","M","E">>
W_TIMESTAMP == <<"T","I","M","E","S","T","A","M","P">>

\* the same table with the trailing * of every glob left out
map_mysql_to_go_exact(mysql_type) ==
    IF mysql_type \in {W_VARCHAR, W_CHAR, W_TEXT, W_MEDIUMTEXT, W_LONGTEXT, W_TINYTEXT} THEN "string"
    ELSE IF mysql_type \in {W_INT, W_TINYINT, W_SMALLINT, W_MEDIUMINT, W_BIGINT} THEN "int"
    ELSE IF mysql_type \in {W_FLOAT, W_DOUBLE, W_DECIMAL} THEN "float64"
    ELSE IF mysql_type \in {W_BOOL, W_BOOLEAN} THEN "bool"
    ELSE IF mysql_type \in {W_DATE, W_DATETIME, W_TIMESTAMP} THEN "time.Time"
    ELSE "string"

\* case "$mysql_type" in ... esac: the first branch whose glob matches
map_mysql_to_go(mysql_type) ==
    LET is(ps) == \E p \in ps : StartsWith(mysql_type, p)
    IN  IF is({W_VARCHAR, W_CHAR, W_TEXT, W_MEDIUMTEXT, W_LONGTEXT, W_TINYTEXT}) THEN "string"
        ELSE IF is({W_INT, W_TINYINT, W_SMALLINT, W_MEDIUMINT, W_BIGINT}) THEN "int"
        ELSE IF is({W_FLOAT, W_DOUBLE, W_DECIMAL}) THEN "float64"
        ELSE IF is({W_BOOL, W_BOOLEAN}) THEN "bool"
        ELSE IF is({W_DATE, W_DATETIME, W_TIMESTAMP}) THEN "time.Time"
        ELSE "string"

-----------------------------------------------------------------------------
(* grep and sed over a file, a sequence of lines.                          *)

\* A pattern: the pieces to find, and whether it is anchored with ^.
Pat(pieces) == [re |-> pieces, bol |-> FALSE]
PatBol(pieces) == [re |-> pieces, bol |-> TRUE]

Matches(line, p) == IF p.bol THEN StartsWith(line, p.re) ELSE Contains(line, p.re)

\* grep -q "<pattern>" file
grep_q(file, p) == \E i \in 1..Len(file) : Matches(file[i], p)

\* sed with the c command in place of a: the matching line is replaced by the text
sed_a_change(file, p, text) ==
    Flatten([i \in 1..Len(file) |->
                IF Matches(file[i], p) THEN text ELSE <<file[i]>>])

\* sed -i "/<pattern>/a\ <text>" file: the text after EVERY matching line
sed_a(file, p, text) ==
    Flatten([i \in 1..Len(file) |->
                IF Matches(file[i], p) THEN <<file[i]>> \o text ELSE <<file[i]>>])

\* sed -i "/<pattern>/i\ <text>" file: the text before EVERY matching line
sed_i(file, p, text) ==
    Flatten([i \in 1..Len(file) |->
                IF Matches(file[i], p) THEN text \o <<file[i]>> ELSE <<file[i]>>])

Count(file, line) == Cardinality({i \in 1..Len(file) : file[i] = line})

-----------------------------------------------------------------------------
(* Names create-module.sh derives from the module name.                    *)

\* tr '[:upper:]' '[:lower:]' | tr ' ' '_'
NormalizeModuleName(raw) ==
    [i \in 1..Len(raw) |-> IF raw[i] = " " THEN "_" ELSE ToLowerChar(raw[i])]

\* ${MODULE_NAME^}: first character upper-cased
UpFirst(m) == IF m = <<>> THEN <<>> ELSE <<ToUpperChar(m[1])>> \o Tail(m)

\* MODULE_PATH, read from go.mod, followed by /internal/
MP_INTERNAL == "github.com/refortunato/go_app_base/internal/"

IMPORT_ALIAS(m, a) == IF a = "1" THEN m ELSE m \o <<"Infra">>
IMPORT_PATH(m, a) ==
    IF a = "1" THEN <<MP_INTERNAL>> \o m ELSE <<MP_INTERNAL>> \o m \o <<"/infra">>
STRUCT_NAME(m) == UpFirst(m) \o <<"Module">>
STRUCT_TYPE(m, a) == <<"*">> \o IMPORT_ALIAS(m, a) \o <<".">> \o STRUCT_NAME(m)
INIT_CALL(m, a) == IMPORT_ALIAS(m, a) \o <<".", "New">> \o STRUCT_NAME(m) \o <<"(db)">>

ROUTE_IMPORT_ALIAS(m, a) == IF a = "1" THEN m ELSE m \o <<"Web">>
ROUTE_IMPORT_PATH(m, a) ==
    IF a = "1" THEN <<MP_INTERNAL>> \o m ELSE <<MP_INTERNAL>> \o m \o <<"/infra/web">>
ROUTE_CALL(m, a) ==
    ROUTE_IMPORT_ALIAS(m, a) \o <<".", "RegisterRoutes(router, c.">> \o STRUCT_NAME(m) \o <<")">>

\* The lines create-module.sh inserts into container.go
ContainerImportLine(m, a) ==
    <<"\t">> \o IMPORT_ALIAS(m, a) \o <<" ", "\"">> \o IMPORT_PATH(m, a) \o <<"\"">>
ContainerFieldLine(m, a) == <<"\t">> \o STRUCT_NAME(m) \o <<" ">> \o STRUCT_TYPE(m, a)
ContainerInitLine(m, a) == <<"\t">> \o m \o <<"Module", " := ">> \o INIT_CALL(m, a)
ContainerReturnLine(m) ==
    <<"\t\t">> \o STRUCT_NAME(m) \o <<":", " ">> \o m \o <<"Module", ",">>

\* The lines create-module.sh inserts into register_routes.go
RoutesImportLine(m, a) ==
    <<"\t">> \o ROUTE_IMPORT_ALIAS(m, a) \o <<" ", "\"">> \o ROUTE_IMPORT_PATH(m, a) \o <<"\"">>
RoutesCallLine(m, a) == <<"\t\t">> \o ROUTE_CALL(m, a)

\* The anchors of the two composition-root files
ANCHOR_IMPORT == PatBol(<<"import (">>)
ANCHOR_CONTAINER_STRUCT == Pat(<<"type Container struct {">>)
ANCHOR_INIT_MODULES == Pat(<<"Initialize modules (each module wires its own dependencies)">>)
ANCHOR_CONTAINER_RETURN == Pat(<<"return &Container{">>)
ANCHOR_REGISTER == Pat(<<"Register routes for each module">>)

-----------------------------------------------------------------------------
(* The files of the repository the tools read and patch.                   *)

ContainerGo ==
    << <<"package container">>,
       <<>>,
       <<"import (">>,
       <<"\t\"database/sql\"">>,
       <<>>,
       <<"\t\"github.com/refortunato/go_app_base/configs\"">>,
       <<"\texampleInfra \"github.com/refortunato/go_app_base/internal/example/infra\"">>,
       <<"\thealthInfra \"github.com/refortunato/go_app_base/internal/health/infra\"">>,
       <<"\t\"github.com/refortunato/go_app_base/internal/shared/logger\"">>,
       <<")">>,
       <<>>,
       <<"// Container holds all application dependencies">>,
       <<"// This is the Composition Root of the application">>,
       <<"type Container struct {">>,
       <<"\t// Modules">>,
       <<"\tExampleModule *exampleInfra.ExampleModule">>,
       <<"\tHealthModule  *healthInfra.HealthModule">>,
       <<>>,
       <<"\t// Logger (shared utility)">>,
       <<"\tLogger logger.Logger">>,
       <<"}">>,
       <<>>,
       <<"// New creates and wires all application dependencies">>,
       <<"// This is the only place where dependencies are composed">>,
       <<"func New(db *sql.DB, cfg *configs.Conf) (*Container, error) {">>,
       <<"\t// Logger">>,
       <<"\tlog := logger.NewSlogLogger(cfg.ImageName, cfg.ImageVersion)">>,
       <<"\tlogger.SetGlobalLogger(log)">>,
       <<"\tlogger.Info(\"Logger initialized successfully\")">>,
       <<>>,
       <<"\t// ", "Initialize modules (each module wires its own dependencies)">>,
       <<"\texampleModule := exampleInfra.NewExampleModule(db)">>,
       <<"\thealthModule := healthInfra.NewHealthModule(db)">>,
       <<>>,
       <<"\t", "return &Container{">>,
       <<"\t\tExampleModule: exampleModule,">>,
       <<"\t\tHealthModule:  healthModule,">>,
       <<"\t\tLogger:        log,">>,
       <<"\t}, nil">>,
       <<"}">> >>

RegisterRoutesHead ==
    << <<"package web">>,
       <<>>,
       <<"import (">>,
       <<"\t\"github.com/gin-gonic/gin\"">>,
       <<"\tswaggerFiles \"github.com/swaggo/files\"">>,
       <<"\tginSwagger \"github.com/swaggo/gin-swagger\"">>,
       <<>>,
       <<"\t\"github.com/refortunato/go_app_base/cmd/server/container\"">>,
       <<"\texampleWeb \"github.com/refortunato/go_app_base/internal/example/infra/web\"">>,
       <<"\thealthWeb \"github.com/refortunato/go_app_base/internal/health/infra/web\"">>,
       <<"\t\"github.com/refortunato/go_app_base/internal/simple_module\"">>,
       <<")">>,
       <<>>,
       <<"// RegisterRoutes is the main route orchestrator">>,
       <<"// It delegates route registration to each module">> >>

RegisterRoutesBody ==
    << <<"func RegisterRoutes(c *container.Container) func(*gin.Engine) {">>,
       <<"\treturn func(router *gin.Engine) {">>,
       <<"\t\t// Swagger documentation">>,
       <<"\t\trouter.GET(\"/swagger/*any\", ginSwagger.WrapHandler(swaggerFiles.Handler))">>,
       <<>>,
       <<"\t\t// ", "Register routes for each module">>,
       <<"\t\thealthWeb.RegisterRoutes(router, c.HealthModule)">>,
       <<"\t\texampleWeb.RegisterRoutes(router, c.ExampleModule)">>,
       <<"\t\tsimple_module.RegisterRoutes(router, c.SimpleModule)">>,
       <<"\t}">>,
       <<"}">> >>

\* register_routes.go as the repository ships it
RegisterRoutesGo == RegisterRoutesHead \o RegisterRoutesBody

\* register_routes.go after a developer repeated the marker text in the doc comment
RegisterRoutesGoEdited ==
    RegisterRoutesHead
    \o << <<"// ", "Register routes for each module", " in the block marked below">> >>
    \o RegisterRoutesBody

SIMPLE_MODULE == <<"s","i","m","p","l","e","_","m","o","d","u","l","e">>

SimpleModuleGo ==
    << <<"package simple_module">>,
       <<>>,
       <<"import (">>,
       <<"\t\"database/sql\"">>,
       <<>>,
       <<"\t\"github.com/refortunato/go_app_base/internal/simple_module/controllers\"">>,
       <<"\t\"github.com/refortunato/go_app_base/internal/simple_module/repositories\"">>,
       <<"\t\"github.com/refortunato/go_app_base/internal/simple_module/services\"">>,
       <<")">>,
       <<>>,
       <<"// SimpleModule holds all initialized dependencies for the simple_module (4-tier architecture)">>,
       <<"// This module demonstrates a simpler architecture pattern for CRUD operations">>,
       <<"type ", "SimpleModule", " struct {">>,
       <<"\tProductController *controllers.ProductController">>,
       <<"\tProductService    *services.ProductService">>,
       <<"}">>,
       <<>>,
       <<"// NewSimpleModule creates and wires all dependencies for the simple_module">>,
       <<"func NewSimpleModule(db *sql.DB) *SimpleModule {">>,
       <<"\t// Step 1: Initialize repository">>,
       <<"\tproductRepo := repositories.NewProductRepository(db)">>,
       <<>>,
       <<"\t// Step 2: Initialize service (inject repository)">>,
       <<"\tproductService := services.NewProductService(productRepo)">>,
       <<>>,
       <<"\t// Step 3: Initialize controller (inject service)">>,
       <<"\tproductController := controllers.NewProductController(productService)">>,
       <<>>,
       <<"\t// Step 4: Return module with all dependencies wired">>,
       <<"\t", "return &", "SimpleModule", "{">>,
       <<"\t\tProductController: productController,">>,
       <<"\t\tProductService:    productService,">>,
       <<"\t}">>,
       <<"}">> >>

RouteOfSimpleModule(verb, path, method) ==
    << <<"\trouter.", verb, "(\"", path, "\", func(ctx *gin.Context) {">>,
       <<"\t\tmodule.ProductController.", method, "(context.NewGinContextAdapter(ctx))">>,
       <<"\t})">> >>

SimpleRoutesGo ==
    << <<"package simple_module">>,
       <<>>,
       <<"import (">>,
       <<"\t\"github.com/gin-gonic/gin\"">>,
       <<"\t\"github.com/refortunato/go_app_base/internal/shared/web/context\"">>,
       <<")">>,
       <<>>,
       <<"// RegisterRoutes registers all routes for the simple_module (4-tier architecture)">>,
       <<"func RegisterRoutes", "(router *gin.Engine, module *SimpleModule) {">>,
       <<"\t// Product routes">> >>
    \o RouteOfSimpleModule("GET", "/products", "ListProducts") \o << <<>> >>
    \o RouteOfSimpleModule("GET", "/products/:id", "GetProduct") \o << <<>> >>
    \o RouteOfSimpleModule("POST", "/products", "CreateProduct") \o << <<>> >>
    \o RouteOfSimpleModule("PUT", "/products/:id", "UpdateProduct") \o << <<>> >>
    \o RouteOfSimpleModule("DELETE", "/products/:id", "DeleteProduct")
    \o << <<"}">> >>

\* The sub-directories of internal/simple_module
SimpleModuleDirs ==
    {<<"controllers">>, <<"errors">>, <<"models">>, <<"repositories">>, <<"services">>}

-----------------------------------------------------------------------------
(* create-module.sh: the files it writes.                                  *)

DIRS_4TIER == {<<"models">>, <<"repositories">>, <<"services">>, <<"controllers">>}
\* the DDD directories without core/domain/entities
DIRS_DDD_no_entities == {<<"core", "application", "repositories">>,
                         <<"core", "application", "usecases">>,
                         <<"infra", "repositories">>,
                         <<"infra", "web", "controllers">>}

DIRS_DDD == {<<"core", "application", "repositories">>,
             <<"core", "application", "usecases">>,
             <<"core", "domain", "entities">>,
             <<"infra", "repositories">>,
             <<"infra", "web", "controllers">>}

\* a test that holds for every directory that is not empty
DirExists_any(ds, d) == ds # {}

\* [ -d "$MODULE_DIR/<d>" ] once the directories ds were made with mkdir -p
DirExists(ds, d) == \E x \in ds : StartsWith(x, d)

ImportOf(m, sub) == <<"\t\"", MP_INTERNAL>> \o m \o <<sub, "\"">>

\* module.go (4-tier) and infra/module.go (DDD) as written by cat > ... <<EOF
ModuleGoTemplate(m, a) ==
    << IF a = "1" THEN <<"package ">> \o m ELSE <<"package infra">>,
       <<>>,
       <<"import (">>,
       <<"\t\"database/sql\"">>,
       <<>> >>
    \o (IF a = "1"
        THEN << ImportOf(m, "/controllers"), ImportOf(m, "/repositories"),
                ImportOf(m, "/services") >>
        ELSE << ImportOf(m, "/core/application/usecases"),
                ImportOf(m, "/infra/repositories"),
                ImportOf(m, "/infra/web/controllers") >>)
    \o << <<")">>,
          <<>>,
          <<"// ">> \o STRUCT_NAME(m)
              \o (IF a = "1" THEN <<" holds all initialized dependencies for the ">>
                             ELSE <<" encapsulates all dependencies for the ">>)
              \o m \o (IF a = "1" THEN <<" module (4-tier architecture)">> ELSE <<" module">>),
          <<"type ">> \o STRUCT_NAME(m) \o <<" struct {">> >>
    \o (IF a = "1"
        THEN << <<"\t// TODO: Add your controllers here">>,
                <<"\t// Example: ProductController *controllers.ProductController">> >>
        ELSE << <<"\t// TODO: Add your controllers and use cases here">>,
                <<"\t// Example: GetExampleUseCase *usecases.GetExampleUseCase">>,
                <<"\t// Example: ExampleController *controllers.ExampleController">> >>)
    \o << <<"}">>,
          <<>>,
          <<"// ", "New">> \o STRUCT_NAME(m)
              \o <<" creates and wires all dependencies for the ">> \o m \o <<" module">>,
          <<"func ", "New">> \o STRUCT_NAME(m) \o <<"(db *sql.DB) *">> \o STRUCT_NAME(m) \o <<" {">>,
          <<"\t// TODO: Wire your dependencies here">>,
          <<"\t// Step 1: Initialize repositories">>,
          IF a = "1" THEN <<"\t// Step 2: Initialize services (inject repositories)">>
                     ELSE <<"\t// Step 2: Initialize use cases (inject repositories)">>,
          IF a = "1" THEN <<"\t// Step 3: Initialize controllers (inject services)">>
                     ELSE <<"\t// Step 3: Initialize controllers (inject use cases)">>,
          <<"\t// Step 4: Return module with all dependencies wired">>,
          <<"\t">>,
          <<"\t", "return &">> \o STRUCT_NAME(m) \o <<"{">>,
          <<"\t\t// TODO: Initialize your dependencies">>,
          <<"\t}">>,
          <<"}">> >>

\* routes.go (4-tier) and infra/web/routes.go (DDD)
RoutesGoTemplate(m, a) ==
    << IF a = "1" THEN <<"package ">> \o m ELSE <<"package web">>,
       <<>>,
       <<"import (">>,
       <<"\t\"github.com/gin-gonic/gin\"">> >>
    \o (IF a = "1" THEN <<>> ELSE << ImportOf(m, "/infra") >>)
    \o << <<"\t\"github.com/refortunato/go_app_base/internal/shared/web/context\"">>,
          <<")">>,
          <<>>,
          <<"// RegisterRoutes registers all routes for the ">> \o m
              \o (IF a = "1" THEN <<" module (4-tier architecture)">> ELSE <<" module">>),
          <<"func RegisterRoutes", "(router *gin.Engine, module *">>
              \o (IF a = "1" THEN <<>> ELSE <<"infra.">>) \o STRUCT_NAME(m) \o <<") {">>,
          <<"\t// TODO: Add your routes here">>,
          <<"\t// Example:">>,
          <<"\t// router.GET(\"/">> \o m \o <<"/:id\", func(ctx *gin.Context) {">>,
          <<"\t//     module.YourController.GetMethod(context.NewGinContextAdapter(ctx))">>,
          <<"\t// })">>,
          <<"}">> >>

-----------------------------------------------------------------------------
(* create-entity.sh: derived names and the text it inserts.                *)

ENTITY_NAME_LOWER == tr_lower(ENTITY_NAME)
ENTITY_NAME_CAPITALIZED == UpFirst(ENTITY_NAME)
\* the module name as it was typed, first letter left alone
MODULE_NAME_uncapitalized == MODULE_NAME

\* ${MODULE_NAME^}
MODULE_NAME_CAPITALIZED == UpFirst(MODULE_NAME)

\* one FIELDS entry: "$field_name_snake:$field_type_mysql:$field_type_go:$field_name_camel:$field_name_pascal"
FieldEntry(snake, mysql, go, camel, pascal) ==
    snake \o <<":">> \o mysql \o <<":", go, ":">> \o camel \o <<":">> \o pascal

HAS_TIME_FIELD == \E i \in 1..Len(FIELDS) : cut(FIELDS[i], 3) = <<"time.Time">>

\* for field in "${FIELDS[@]}": one item per field, in array order
ForFields(Item(_)) == [i \in 1..Len(FIELDS) |-> Item(FIELDS[i])]

\* for i in "${!FIELDS[@]}": the last index closes the list with a tail
ForFieldsLast(Item(_), tail) ==
    Flatten([i \in 1..Len(FIELDS) |->
                IF i = Len(FIELDS) THEN <<Item(FIELDS[i])>> \o tail ELSE <<Item(FIELDS[i])>>])

ANCHOR_MODULE_STRUCT == Pat(<<"type ">> \o MODULE_NAME_CAPITALIZED \o <<"Module", " struct {">>)
ANCHOR_MODULE_RETURN == Pat(<<"return &">> \o MODULE_NAME_CAPITALIZED \o <<"Module", "{">>)
ANCHOR_ROUTES_FUNC == Pat(<<"func RegisterRoutes">>)

EntityFieldLine ==
    <<"\t">> \o ENTITY_NAME_CAPITALIZED \o <<"Controller *controllers.">>
             \o ENTITY_NAME_CAPITALIZED \o <<"Controller">>

EntityReturnLine ==
    <<"\t\t">> \o ENTITY_NAME_CAPITALIZED \o <<"Controller: ">>
               \o ENTITY_NAME_LOWER \o <<"Controller,">>

UseCaseLine(op, lc) ==
    <<"\t", lc>> \o ENTITY_NAME_CAPITALIZED \o <<"UC := usecases.New", op>>
        \o ENTITY_NAME_CAPITALIZED \o <<"UseCase(">> \o ENTITY_NAME_LOWER \o <<"Repo)">>

\* the block inserted before "return &<Module>Module{"
EntityWiringBlock(arch) ==
    LET EC == ENTITY_NAME_CAPITALIZED
        EL == ENTITY_NAME_LOWER
    IN  IF arch = "ddd"
        THEN << <<>>,
                <<"\t// ">> \o EC \o <<" CRUD">>,
                <<"\t">> \o EL \o <<"Repo := repositories.New">> \o EC \o <<"MySQLRepository(db)">>,
                UseCaseLine("Create", "create"),
                UseCaseLine("Get", "get"),
                UseCaseLine("List", "list"),
                UseCaseLine("Update", "update"),
                UseCaseLine("Delete", "delete"),
                <<"\t">> \o EL \o <<"Controller := controllers.New">> \o EC
                    \o <<"Controller(*create">> \o EC \o <<"UC, *get">> \o EC
                    \o <<"UC, *list">> \o EC \o <<"UC, *update">> \o EC
                    \o <<"UC, *delete">> \o EC \o <<"UC)">> >>
        ELSE << <<>>,
                <<"\t// ">> \o EC \o <<" CRUD">>,
                <<"\t">> \o EL \o <<"Repo := repositories.New">> \o EC \o <<"Repository(db)">>,
                <<"\t">> \o EL \o <<"Service := services.New">> \o EC \o <<"Service(">>
                    \o EL \o <<"Repo)">>,
                <<"\t">> \o EL \o <<"Controller := controllers.New">> \o EC
                    \o <<"Controller(">> \o EL \o <<"Service)">> >>

RouteLines(verb, suffix, method) ==
    << <<"\trouter.", verb, "(\"/">> \o ENTITY_NAME_LOWER
           \o <<"s", suffix, "\", func(ctx *gin.Context) {">>,
       <<"\t\tmodule.">> \o ENTITY_NAME_CAPITALIZED
           \o <<"Controller.", method, "(context.NewGinContextAdapter(ctx))">>,
       <<"\t})">> >>

\* the block inserted after "func RegisterRoutes"
EntityRouteBlock ==
    << <<>>, <<"\t// ">> \o ENTITY_NAME_CAPITALIZED \o <<" routes">> >>
    \o RouteLines("POST", "", "Create")
    \o RouteLines("GET", "/:id", "Get")
    \o RouteLines("GET", "", "List")
    \o RouteLines("PUT", "/:id", "Update")
    \o RouteLines("DELETE", "/:id", "Delete")

-----------------------------------------------------------------------------
(* create-entity.sh: the files it writes.  A file is the sequence of its   *)
(* field-dependent sections <<name, items>>, in the order of the template; *)
(* an item is the text of one list element.  Go's raw-string quote around  *)
(* a struct tag is written ' here.                                         *)

Sec(name, items) == <<name, items>>

f_snake(field) == cut(field, 1)
f_go(field) == cut(field, 3)
f_camel(field) == cut(field, 4)
f_pascal(field) == cut(field, 5)

\* if [ "$HAS_TIME_FIELD" = true ]; then echo '"time"' ...
TimeImport == IF HAS_TIME_FIELD THEN << <<"time">> >> ELSE <<>>

\* the column list with the two timestamps ahead of the fields
ColumnList_timestamps_first ==
    << <<"id">>, <<"created_at">>, <<"updated_at">> >> \o ForFields(f_snake)

\* column lists: "id," then one line per field, the last one closing the list
ColumnList ==
    << <<"id">> >> \o ForFieldsLast(f_snake, << <<"created_at">>, <<"updated_at">> >>)

\* a placeholder list with one '?' per field and two for the timestamps
InsertPlaceholders_no_id ==
    Flatten([i \in 1..Len(FIELDS) |->
                IF i = Len(FIELDS) THEN <<"?", "?", "?">> ELSE <<"?">>])

\* placeholder list of INSERT: "VALUES (?, " then "?, " per field, "?, ?, ?)" for the last
InsertPlaceholders ==
    <<"?">> \o Flatten([i \in 1..Len(FIELDS) |->
                          IF i = Len(FIELDS) THEN <<"?", "?", "?">> ELSE <<"?">>])

\* UPDATE ... SET list
UpdateSetList ==
    ForFieldsLast(LAMBDA f : f_snake(f) \o <<" = ?">>, << <<"updated_at", " = ?">> >>)

JsonField(f) == f_pascal(f) \o <<" ">> \o f_go(f) \o <<" 'json:\"">> \o f_snake(f) \o <<"\"'">>
DtoLiteral(f) == f_pascal(f) \o <<": entity.Get">> \o f_pascal(f) \o <<"()">>

\* ---- DDD ----

DddEntityFile ==
    << Sec("import", TimeImport \o << <<"shared">> >>),
       Sec("struct", << <<"id", " ", "string">> >>
                     \o ForFields(LAMBDA f : f_camel(f) \o <<" ">> \o f_go(f))
                     \o << <<"createdAt", " ", "time.Time">>, <<"updatedAt", " ", "time.Time">> >>),
       Sec("New.params", ForFields(LAMBDA f : f_camel(f) \o <<" ">> \o f_go(f))),
       Sec("New.literal", << <<"id", ": ", "shared.GenerateId()">> >>
                     \o ForFields(LAMBDA f : f_camel(f) \o <<": ">> \o f_camel(f))
                     \o << <<"createdAt", ": ", "time.Now().UTC()">>,
                           <<"updatedAt", ": ", "time.Now().UTC()">> >>),
       Sec("Restore.params", << <<"id", " ", "string">> >>
                     \o ForFields(LAMBDA f : f_camel(f) \o <<" ">> \o f_go(f))
                     \o << <<"createdAt", " ", "time.Time">>, <<"updatedAt", " ", "time.Time">> >>),
       Sec("Restore.literal", << <<"id", ": ", "id">> >>
                     \o ForFields(LAMBDA f : f_camel(f) \o <<": ">> \o f_camel(f))
                     \o << <<"createdAt", ": ", "createdAt">>, <<"updatedAt", ": ", "updatedAt">> >>),
       Sec("Validate", << <<"Validate">> >>),
       Sec("getters", << <<"Get", "Id">> >>
                     \o ForFields(LAMBDA f : <<"Get">> \o f_pascal(f))
                     \o << <<"Get", "CreatedAt">>, <<"Get", "UpdatedAt">> >>),
       Sec("setters", ForFields(LAMBDA f : <<"Set">> \o f_pascal(f))) >>

DddRepoInterfaceFile ==
    << Sec("methods", << <<"Save">>, <<"FindById">>, <<"FindAll">>, <<"Count">>,
                         <<"Update">>, <<"Delete">> >>) >>

DddRepoImplFile ==
    << Sec("import", << <<"database/sql">> >> \o TimeImport \o << <<"entities">> >>),
       Sec("struct", << <<"Id", " ", "string">> >>
                     \o ForFields(LAMBDA f : f_pascal(f) \o <<" ">> \o f_go(f)
                                             \o <<" 'db:\"">> \o f_snake(f) \o <<"\"'">>)
                     \o << <<"CreatedAt", " ", "time.Time">>, <<"UpdatedAt", " ", "time.Time">> >>),
       Sec("table", << ENTITY_NAME_LOWER \o <<"s">> >>),
       Sec("Save.columns", ColumnList),
       Sec("Save.placeholders", <<InsertPlaceholders>>),
       Sec("Save.args", << <<"entity.Get", "Id", "()">> >>
                     \o ForFields(LAMBDA f : <<"entity.Get">> \o f_pascal(f) \o <<"()">>)
                     \o << <<"entity.Get", "CreatedAt", "()">>, <<"entity.Get", "UpdatedAt", "()">> >>),
       Sec("FindById.columns", ColumnList),
       Sec("FindById.from", << <<"FROM ">> \o ENTITY_NAME_LOWER \o <<"s", " WHERE id = ", "?">> >>),
       Sec("FindById.args", << <<"id">> >>),
       Sec("FindById.scan", << <<"&dbEntity.", "Id">> >>
                     \o ForFields(LAMBDA f : <<"&dbEntity.">> \o f_pascal(f))
                     \o << <<"&dbEntity.", "CreatedAt">>, <<"&dbEntity.", "UpdatedAt">> >>),
       Sec("FindAll.columns", ColumnList),
       Sec("FindAll.from", << <<"FROM ">> \o ENTITY_NAME_LOWER \o <<"s">>,
                              <<"ORDER BY created_at DESC">>,
                              <<"LIMIT ", "?", " OFFSET ", "?">> >>),
       Sec("FindAll.args", << <<"limit">>, <<"offset">> >>),
       Sec("FindAll.scan", << <<"&dbEntity.", "Id">> >>
                     \o ForFields(LAMBDA f : <<"&dbEntity.">> \o f_pascal(f))
                     \o << <<"&dbEntity.", "CreatedAt">>, <<"&dbEntity.", "UpdatedAt">> >>),
       Sec("Count.query", << <<"SELECT COUNT(*) FROM ">> \o ENTITY_NAME_LOWER \o <<"s">> >>),
       Sec("Update.set", UpdateSetList),
       Sec("Update.where", << <<"WHERE id = ", "?">> >>),
       Sec("Update.args", ForFields(LAMBDA f : <<"entity.Get">> \o f_pascal(f) \o <<"()">>)
                     \o << <<"entity.Get", "UpdatedAt", "()">>, <<"entity.Get", "Id", "()">> >>),
       Sec("Delete.query", << <<"DELETE FROM ">> \o ENTITY_NAME_LOWER \o <<"s", " WHERE id = ", "?">> >>),
       Sec("Delete.args", << <<"id">> >>),
       Sec("mapToDomain.args", << <<"dbEntity.", "Id">> >>
                     \o ForFields(LAMBDA f : <<"dbEntity.">> \o f_pascal(f))
                     \o << <<"dbEntity.", "CreatedAt">>, <<"dbEntity.", "UpdatedAt">> >>) >>

DddCreateUseCaseFile ==
    << Sec("import", TimeImport \o << <<"repositories">>, <<"entities">> >>),
       Sec("InputDTO", ForFields(LAMBDA f : f_pascal(f) \o <<" ">> \o f_go(f))),
       Sec("New.args", ForFields(LAMBDA f : <<"input.">> \o f_pascal(f))) >>

DddGetUseCaseFile ==
    << Sec("import", TimeImport \o << <<"repositories">> >>),
       Sec("OutputDTO", << <<"Id", " ", "string", " 'json:\"", "id", "\"'">> >>
                     \o ForFields(JsonField)
                     \o << <<"CreatedAt", " ", "time.Time", " 'json:\"", "created_at", "\"'">>,
                           <<"UpdatedAt", " ", "time.Time", " 'json:\"", "updated_at", "\"'">> >>),
       Sec("OutputDTO.literal", << <<"Id", ": entity.Get", "Id", "()">> >>
                     \o ForFields(DtoLiteral)
                     \o << <<"CreatedAt", ": entity.Get", "CreatedAt", "()">>,
                           <<"UpdatedAt", ": entity.Get", "UpdatedAt", "()">> >>) >>

DddListUseCaseFile ==
    << Sec("import", TimeImport \o << <<"repositories">>, <<"dto">> >>),
       Sec("ItemDTO", << <<"Id", " ", "string", " 'json:\"", "id", "\"'">> >>
                     \o ForFields(JsonField)
                     \o << <<"CreatedAt", " ", "time.Time", " 'json:\"", "created_at", "\"'">>,
                           <<"UpdatedAt", " ", "time.Time", " 'json:\"", "updated_at", "\"'">> >>),
       Sec("ItemDTO.literal", << <<"Id", ": entity.Get", "Id", "()">> >>
                     \o ForFields(DtoLiteral)
                     \o << <<"CreatedAt", ": entity.Get", "CreatedAt", "()">>,
                           <<"UpdatedAt", ": entity.Get", "UpdatedAt", "()">> >>) >>

DddUpdateUseCaseFile ==
    << Sec("import", TimeImport \o << <<"repositories">> >>),
       Sec("InputDTO", << <<"Id", " ", "string">> >>
                     \o ForFields(LAMBDA f : f_pascal(f) \o <<" ">> \o f_go(f))),
       Sec("setters.calls", ForFields(LAMBDA f : <<"entity.Set">> \o f_pascal(f)
                                                 \o <<"(input.">> \o f_pascal(f) \o <<")">>)) >>

DddDeleteUseCaseFile ==
    << Sec("import", << <<"repositories">> >>),
       Sec("DeleteInputDTO", << <<"Id", " ", "string">> >>) >>

ControllerOps == << <<"Create">>, <<"Get">>, <<"List">>, <<"Update">>, <<"Delete">> >>

DddControllerFile ==
    << Sec("import", << <<"net/http">>, <<"usecases">>, <<"dto">>, <<"advisor">>, <<"context">> >>),
       Sec("operations", ControllerOps) >>

\* ---- 4-tier ----

TierModelFile ==
    << Sec("import", TimeImport),
       Sec("struct", << <<"ID", " ", "string">> >>
                     \o ForFields(LAMBDA f : f_pascal(f) \o <<" ">> \o f_go(f))
                     \o << <<"CreatedAt", " ", "time.Time">>, <<"UpdatedAt", " ", "time.Time">> >>) >>

\* the values bound by Update with the identifier bound first
TierUpdateArgs_id_first ==
    << <<"entity.", "ID">> >> \o ForFields(LAMBDA f : <<"entity.">> \o f_pascal(f))
                           \o << <<"entity.", "UpdatedAt">> >>

\* the values r.db.Exec binds in Update: the fields, UpdatedAt, then ID
TierUpdateArgs ==
    ForFields(LAMBDA f : <<"entity.">> \o f_pascal(f))
        \o << <<"entity.", "UpdatedAt">>, <<"entity.", "ID">> >>

TierRepoFile ==
    << Sec("import", << <<"database/sql">> >> \o TimeImport \o << <<"models">> >>),
       Sec("table", << ENTITY_NAME_LOWER \o <<"s">> >>),
       Sec("FindById.columns", ColumnList),
       Sec("FindById.from", << <<"FROM ">> \o ENTITY_NAME_LOWER \o <<"s", " WHERE id = ", "?">> >>),
       Sec("FindById.args", << <<"id">> >>),
       Sec("FindById.scan", << <<"&entity.", "ID">> >>
                     \o ForFields(LAMBDA f : <<"&entity.">> \o f_pascal(f))
                     \o << <<"&entity.", "CreatedAt">>, <<"&entity.", "UpdatedAt">> >>),
       Sec("FindAll.columns", ColumnList),
       Sec("FindAll.from", << <<"FROM ">> \o ENTITY_NAME_LOWER \o <<"s">>,
                              <<"ORDER BY created_at DESC">>,
                              <<"LIMIT ", "?", " OFFSET ", "?">> >>),
       Sec("FindAll.args", << <<"limit">>, <<"offset">> >>),
       Sec("FindAll.scan", << <<"&entity.", "ID">> >>
                     \o ForFields(LAMBDA f : <<"&entity.">> \o f_pascal(f))
                     \o << <<"&entity.", "CreatedAt">>, <<"&entity.", "UpdatedAt">> >>),
       Sec("Count.query", << <<"SELECT COUNT(*) FROM ">> \o ENTITY_NAME_LOWER \o <<"s">> >>),
       Sec("Save.columns", ColumnList),
       Sec("Save.placeholders", <<InsertPlaceholders>>),
       Sec("Save.args", << <<"entity.", "ID">> >>
                     \o ForFields(LAMBDA f : <<"entity.">> \o f_pascal(f))
                     \o << <<"entity.", "CreatedAt">>, <<"entity.", "UpdatedAt">> >>),
       Sec("Update.set", UpdateSetList),
       Sec("Update.where", << <<"WHERE id = ", "?">> >>),
       Sec("Update.args", TierUpdateArgs),
       Sec("Delete.query", << <<"DELETE FROM ">> \o ENTITY_NAME_LOWER \o <<"s", " WHERE id = ", "?">> >>),
       Sec("Delete.args", << <<"id">> >>) >>

TierServiceFile ==
    << Sec("import", << <<"fmt">> >> \o TimeImport
                     \o << <<"shared">>, <<"models">>, <<"repositories">> >>),
       Sec("Create.params", ForFields(LAMBDA f : f_camel(f) \o <<" ">> \o f_go(f))),
       Sec("Create.now", << <<"now", " := ", "time.Now().UTC()">> >>),
       Sec("Create.literal", << <<"ID", ": ", "shared.GenerateId()">> >>
                     \o ForFields(LAMBDA f : f_pascal(f) \o <<": ">> \o f_camel(f))
                     \o << <<"CreatedAt", ": ", "now">>, <<"UpdatedAt", ": ", "now">> >>),
       Sec("Update.params", << <<"id", " ", "string">> >>
                     \o ForFields(LAMBDA f : f_camel(f) \o <<" ">> \o f_go(f))),
       Sec("Update.assign", ForFields(LAMBDA f : <<"existing.">> \o f_pascal(f)
                                                 \o <<" = ">> \o f_camel(f))),
       Sec("Update.touch", << <<"existing.", "UpdatedAt", " = ", "time.Now().UTC()">> >>) >>

TierControllerFile ==
    << Sec("import", << <<"net/http">>, <<"dto">>, <<"advisor">>, <<"context">>, <<"services">> >>),
       Sec("operations", ControllerOps),
       Sec("Create.request", ForFields(JsonField)),
       Sec("Create.args", ForFields(LAMBDA f : <<"request.">> \o f_pascal(f))),
       Sec("Update.request", ForFields(JsonField)),
       Sec("Update.args", << <<"id">> >> \o ForFields(LAMBDA f : <<"request.">> \o f_pascal(f))) >>

\* path of a generated file: <<module, directory, file name>>
GenPath(dir, name) == <<MODULE_NAME, dir, name>>

\* the files one run writes, in the order it writes them
EntityFiles(arch) ==
    LET EL == ENTITY_NAME_LOWER
    IN  IF arch = "ddd"
        THEN << <<GenPath(<<"core", "domain", "entities">>, EL \o <<".go">>), DddEntityFile>>,
                <<GenPath(<<"core", "application", "repositories">>, EL \o <<"_repository.go">>),
                  DddRepoInterfaceFile>>,
                <<GenPath(<<"infra", "repositories">>, EL \o <<"_mysql_repository.go">>),
                  DddRepoImplFile>>,
                <<GenPath(<<"core", "application", "usecases">>, <<"create_">> \o EL \o <<".go">>),
                  DddCreateUseCaseFile>>,
                <<GenPath(<<"core", "application", "usecases">>, <<"get_">> \o EL \o <<".go">>),
                  DddGetUseCaseFile>>,
                <<GenPath(<<"core", "application", "usecases">>, <<"list_">> \o EL \o <<".go">>),
                  DddListUseCaseFile>>,
                <<GenPath(<<"core", "application", "usecases">>, <<"update_">> \o EL \o <<".go">>),
                  DddUpdateUseCaseFile>>,
                <<GenPath(<<"core", "application", "usecases">>, <<"delete_">> \o EL \o <<".go">>),
                  DddDeleteUseCaseFile>>,
                <<GenPath(<<"infra", "web", "controllers">>, EL \o <<"_controller.go">>),
                  DddControllerFile>> >>
        ELSE << <<GenPath(<<"models">>, EL \o <<".go">>), TierModelFile>>,
                <<GenPath(<<"repositories">>, EL \o <<"_repository.go">>), TierRepoFile>>,
                <<GenPath(<<"services">>, EL \o <<"_service.go">>), TierServiceFile>>,
                <<GenPath(<<"controllers">>, EL \o <<"_controller.go">>), TierControllerFile>> >>

\* cat > file: create or overwrite
RECURSIVE WriteAll(_, _)
WriteAll(fs, files) ==
    IF files = <<>> THEN fs
    ELSE LET p == Head(files)[1]
             c == Head(files)[2]
         IN  WriteAll([q \in (DOMAIN fs) \cup {p} |-> IF q = p THEN c ELSE fs[q]], Tail(files))

-----------------------------------------------------------------------------
(* What the operator can type.                                             *)

M_SHOP == <<"S","h","o","p">>
M_HEALTH == <<"h","e","a","l","t","h">>
M_NONE == <<"n","o","n","e">>
E_USER == <<"U","s","e","r">>
E_TAG == <<"t","a","g">>
DONE == <<"d","o","n","e">>
F_NAME == <<"n","a","m","e",":">> \o W_VARCHAR

ModuleNameInputs == {<<>>, M_SHOP}
ArchInputs == {"1", "2", "3"}
EntityModuleInputs == {<<>>, NormalizeModuleName(M_SHOP), SIMPLE_MODULE, M_HEALTH, M_NONE}
EntityNameInputs == {<<>>, E_USER, E_TAG, tr_lower(E_USER)}
MainFieldInputs == {F_NAME}

-----------------------------------------------------------------------------
(* Console messages.                                                       *)

MSG_MODULE_OK == "Module created successfully!"
MSG_ENTITY_OK == "Entity created successfully!"

NoFields == <<>>

\* exit 1 after print_error
Abort(msg) ==
    /\ tool' = "none"
    /\ pc' = "exit"
    /\ exit_code' = 1
    /\ out' = <<msg>>

ResetFieldVars ==
    /\ FIELDS' = NoFields
    /\ FIELD_NAMES' = <<>>
    /\ field_input' = <<>>
    /\ field_type_mysql' = <<>>
    /\ field_type_go' = ""
    /\ field_name_snake' = <<>>
    /\ field_name_camel' = <<>>
    /\ field_name_pascal' = <<>>

-----------------------------------------------------------------------------
(* create-module.sh                                                        *)

\* the prompts without the test [ -d "internal/${MODULE_NAME}" ]
ModuleStart_nocheck(raw, choice) ==
    /\ tool = "none"
    /\ runs < MaxRuns
    /\ runs' = runs + 1
    /\ ENTITY_NAME' = <<>>
    /\ ResetFieldVars
    /\ UNCHANGED fsVars
    /\ IF raw = <<>>
       THEN /\ MODULE_NAME' = raw
            /\ ARCH_TYPE' = ""
            /\ Abort("Module name cannot be empty")
       ELSE /\ MODULE_NAME' = NormalizeModuleName(raw)
            /\ ARCH_TYPE' = choice
            /\ IF choice # "1" /\ choice # "2"
               THEN Abort("Invalid choice. Please enter 1 or 2")
               ELSE /\ tool' = "module"
                    /\ pc' = "emit"
                    /\ exit_code' = exit_code
                    /\ out' = <<"Creating module">>

\* prompts and precondition checks
ModuleStart(raw, choice) ==
    /\ tool = "none"
    /\ runs < MaxRuns
    /\ runs' = runs + 1
    /\ ENTITY_NAME' = <<>>
    /\ ResetFieldVars
    /\ UNCHANGED fsVars
    /\ IF raw = <<>>
       THEN /\ MODULE_NAME' = raw
            /\ ARCH_TYPE' = ""
            /\ Abort("Module name cannot be empty")
       ELSE /\ MODULE_NAME' = NormalizeModuleName(raw)
            /\ ARCH_TYPE' = choice
            /\ IF choice # "1" /\ choice # "2"
               THEN Abort("Invalid choice. Please enter 1 or 2")
               ELSE IF NormalizeModuleName(raw) \in DOMAIN dirs
                    THEN Abort("Module already exists")
                    ELSE /\ tool' = "module"
                         /\ pc' = "emit"
                         /\ exit_code' = exit_code
                         /\ out' = <<"Creating module">>

\* mkdir -p ... ; cat > module.go ; cat > routes.go
ModuleEmit ==
    /\ tool = "module"
    /\ pc = "emit"
    /\ dirs' = [m \in (DOMAIN dirs) \cup {MODULE_NAME} |->
                   IF m = MODULE_NAME
                   THEN (IF ARCH_TYPE = "1" THEN DIRS_4TIER ELSE DIRS_DDD)
                   ELSE dirs[m]]
    /\ module_go' = [m \in (DOMAIN module_go) \cup {MODULE_NAME} |->
                        IF m = MODULE_NAME THEN ModuleGoTemplate(MODULE_NAME, ARCH_TYPE)
                        ELSE module_go[m]]
    /\ routes_go' = [m \in (DOMAIN routes_go) \cup {MODULE_NAME} |->
                        IF m = MODULE_NAME THEN RoutesGoTemplate(MODULE_NAME, ARCH_TYPE)
                        ELSE routes_go[m]]
    /\ out' = out \o <<"Created directory structure", "Created module.go", "Created routes.go">>
    /\ pc' = "container"
    /\ UNCHANGED <<tool, exit_code, runs, MODULE_NAME, ARCH_TYPE, ENTITY_NAME, fieldVars,
                   container_go, register_routes_go, gen_files>>

\* if ! grep -q <guard> file; then sed -i "/<anchor>/a\ <line>" file; else warn; fi
GuardedAppend(file, guard, anchor, line) ==
    IF ~grep_q(file, guard) THEN sed_a(file, anchor, <<line>>) ELSE file

GuardMessage(file, guard, added, warning) ==
    IF ~grep_q(file, guard) THEN added ELSE warning

\* the guards of the four insertions into container.go
ContainerGuards(m, a) ==
    << Pat(<<"\"">> \o IMPORT_PATH(m, a) \o <<"\"">>),
       Pat(STRUCT_NAME(m)),
       Pat(INIT_CALL(m, a)),
       Pat(STRUCT_NAME(m) \o <<":">>) >>

\* container.go before the first and after each of the four insertions
ContainerSteps(f0, m, a) ==
    LET g == ContainerGuards(m, a)
        f1 == GuardedAppend(f0, g[1], ANCHOR_IMPORT, ContainerImportLine(m, a))
        f2 == GuardedAppend(f1, g[2], ANCHOR_CONTAINER_STRUCT, ContainerFieldLine(m, a))
        f3 == GuardedAppend(f2, g[3], ANCHOR_INIT_MODULES, ContainerInitLine(m, a))
        f4 == GuardedAppend(f3, g[4], ANCHOR_CONTAINER_RETURN, ContainerReturnLine(m))
    IN  <<f0, f1, f2, f3, f4>>

\* "Updating container.go...": the four insertions, one after the other
ModulePatchContainer ==
    /\ tool = "module"
    /\ pc = "container"
    /\ LET g == ContainerGuards(MODULE_NAME, ARCH_TYPE)
           f == ContainerSteps(container_go, MODULE_NAME, ARCH_TYPE)
       IN  /\ container_go' = f[5]
           /\ out' = out \o
                << GuardMessage(f[1], g[1], "Added import to container.go",
                                "Import already exists in container.go"),
                   GuardMessage(f[2], g[2], "Added field to Container struct",
                                "Field already exists in Container struct"),
                   GuardMessage(f[3], g[3], "Added module initialization to New function",
                                "Module initialization already exists in New function"),
                   GuardMessage(f[4], g[4], "Added field to Container return statement",
                                "Field already exists in Container return statement") >>
    /\ pc' = "routes"
    /\ UNCHANGED <<tool, exit_code, runs, MODULE_NAME, ARCH_TYPE, ENTITY_NAME, fieldVars,
                   dirs, module_go, routes_go, register_routes_go, gen_files>>

\* the guards of the two insertions into register_routes.go
RoutesGuards(m, a) ==
    << Pat(<<"\"">> \o ROUTE_IMPORT_PATH(m, a) \o <<"\"">>),
       Pat(ROUTE_CALL(m, a)) >>

\* register_routes.go before the first and after each of the two insertions
RoutesSteps(f0, m, a) ==
    LET g == RoutesGuards(m, a)
        f1 == GuardedAppend(f0, g[1], ANCHOR_IMPORT, RoutesImportLine(m, a))
        f2 == GuardedAppend(f1, g[2], ANCHOR_REGISTER, RoutesCallLine(m, a))
    IN  <<f0, f1, f2>>

\* "Updating register_routes.go...": the two insertions
ModulePatchRoutes ==
    /\ tool = "module"
    /\ pc = "routes"
    /\ LET g == RoutesGuards(MODULE_NAME, ARCH_TYPE)
           f == RoutesSteps(register_routes_go, MODULE_NAME, ARCH_TYPE)
       IN  /\ register_routes_go' = f[3]
           /\ out' = out \o
                << GuardMessage(f[1], g[1], "Added import to register_routes.go",
                                "Import already exists in register_routes.go"),
                   GuardMessage(f[2], g[2], "Added route registration to register_routes.go",
                                "Route registration already exists in register_routes.go") >>
    /\ pc' = "report"
    /\ UNCHANGED <<tool, exit_code, runs, MODULE_NAME, ARCH_TYPE, ENTITY_NAME, fieldVars,
                   dirs, module_go, routes_go, container_go, gen_files>>

\* print_success "Module '$MODULE_NAME' created successfully!" and the next steps
ModuleReport ==
    /\ tool = "module"
    /\ pc = "report"
    /\ out' = Append(out, MSG_MODULE_OK)
    /\ tool' = "none"
    /\ pc' = "exit"
    /\ exit_code' = 0
    /\ UNCHANGED <<runs, MODULE_NAME, ARCH_TYPE, ENTITY_NAME, fieldVars, fsVars>>

\* the operator deletes internal/<m>, the remedy the guide gives for "already exists"
RemoveModuleDir(m) ==
    /\ tool = "none"
    /\ m \in DOMAIN dirs
    /\ dirs' = [x \in (DOMAIN dirs) \ {m} |-> dirs[x]]
    /\ module_go' = [x \in (DOMAIN module_go) \ {m} |-> module_go[x]]
    /\ routes_go' = [x \in (DOMAIN routes_go) \ {m} |-> routes_go[x]]
    /\ gen_files' = [q \in {x \in DOMAIN gen_files : x[1] # m} |-> gen_files[q]]
    /\ UNCHANGED <<tool, pc, exit_code, out, runs, MODULE_NAME, ARCH_TYPE, ENTITY_NAME,
                   fieldVars, container_go, register_routes_go>>

-----------------------------------------------------------------------------
(* create-entity.sh                                                        *)

\* prompts for module and entity name, architecture detection
EntityStart(module_in, entity_in) ==
    /\ tool = "none"
    /\ runs < MaxRuns
    /\ runs' = runs + 1
    /\ MODULE_NAME' = module_in
    /\ ResetFieldVars
    /\ UNCHANGED fsVars
    /\ IF module_in = <<>>
       THEN /\ ARCH_TYPE' = ""
            /\ ENTITY_NAME' = <<>>
            /\ Abort("Module name cannot be empty")
       ELSE IF module_in \notin DOMAIN dirs
       THEN /\ ARCH_TYPE' = ""
            /\ ENTITY_NAME' = <<>>
            /\ Abort("Module does not exist")
       ELSE IF ~DirExists(dirs[module_in], <<"core", "domain">>)
               /\ ~DirExists(dirs[module_in], <<"models">>)
       THEN /\ ARCH_TYPE' = ""
            /\ ENTITY_NAME' = <<>>
            /\ Abort("Could not detect module architecture")
       ELSE /\ ARCH_TYPE' = IF DirExists(dirs[module_in], <<"core", "domain">>)
                            THEN "ddd" ELSE "4tier"
            /\ ENTITY_NAME' = entity_in
            /\ IF entity_in = <<>>
               THEN Abort("Entity name cannot be empty")
               ELSE /\ tool' = "entity"
                    /\ pc' = "fields"
                    /\ exit_code' = exit_code
                    /\ out' = <<"Entity name">>

\* the array grown at the front
FieldsPlus_front(entry) == <<entry>> \o FIELDS

\* FIELDS+=("...")
FieldsPlus(entry) == Append(FIELDS, entry)

\* one iteration of the field loop on a line that is neither 'done' nor empty
FieldAdd(line) ==
    /\ tool = "entity"
    /\ pc = "fields"
    /\ line # DONE
    /\ line # <<>>
    /\ Len(FIELDS) < MaxFields
    /\ LET name_input == cut(line, 1)
           mysql == tr_upper(cut(line, 2))
           go == map_mysql_to_go(mysql)
           snake == to_snake_case(name_input)
           camel == to_camel_case(snake)
           pascal == capitalize(camel)
       IN  /\ field_input' = line
           /\ field_type_mysql' = mysql
           /\ field_type_go' = go
           /\ field_name_snake' = snake
           /\ field_name_camel' = camel
           /\ field_name_pascal' = pascal
           /\ FIELDS' = FieldsPlus(FieldEntry(snake, mysql, go, camel, pascal))
           /\ FIELD_NAMES' = Append(FIELD_NAMES, snake)
           /\ out' = Append(out, "Added field")
    /\ UNCHANGED <<tool, pc, exit_code, runs, MODULE_NAME, ARCH_TYPE, ENTITY_NAME, fsVars>>

\* an empty line: continue
FieldBlank ==
    /\ tool = "entity"
    /\ pc = "fields"
    /\ field_input # <<>>
    /\ field_input' = <<>>
    /\ UNCHANGED <<tool, pc, exit_code, out, runs, MODULE_NAME, ARCH_TYPE, ENTITY_NAME,
                   FIELDS, FIELD_NAMES, field_type_mysql, field_type_go,
                   field_name_snake, field_name_camel, field_name_pascal, fsVars>>

\* the line 'done' without the zero-field check after the loop
FieldDone_unchecked ==
    /\ tool = "entity"
    /\ pc = "fields"
    /\ field_input' = DONE
    /\ tool' = tool
    /\ pc' = "emit"
    /\ exit_code' = exit_code
    /\ out' = Append(out, "Creating entity")
    /\ UNCHANGED <<runs, MODULE_NAME, ARCH_TYPE, ENTITY_NAME,
                   FIELDS, FIELD_NAMES, field_type_mysql, field_type_go,
                   field_name_snake, field_name_camel, field_name_pascal, fsVars>>

\* the line 'done': leave the loop, then the zero-field check
FieldDone ==
    /\ tool = "entity"
    /\ pc = "fields"
    /\ field_input' = DONE
    /\ IF Len(FIELDS) = 0
       THEN Abort("At least one field is required")
       ELSE /\ tool' = tool
            /\ pc' = "emit"
            /\ exit_code' = exit_code
            /\ out' = Append(out, "Creating entity")
    /\ UNCHANGED <<runs, MODULE_NAME, ARCH_TYPE, ENTITY_NAME,
                   FIELDS, FIELD_NAMES, field_type_mysql, field_type_go,
                   field_name_snake, field_name_camel, field_name_pascal, fsVars>>

\* sections 1..5 (DDD) or 1..4 (4-tier): every new file, with cat > and >>
EntityEmit ==
    /\ tool = "entity"
    /\ pc = "emit"
    /\ gen_files' = WriteAll(gen_files, EntityFiles(ARCH_TYPE))
    /\ out' = out \o [i \in 1..Len(EntityFiles(ARCH_TYPE)) |-> "Created file"]
    /\ pc' = "module.go"
    /\ UNCHANGED <<tool, exit_code, runs, MODULE_NAME, ARCH_TYPE, ENTITY_NAME, fieldVars,
                   dirs, module_go, routes_go, container_go, register_routes_go>>

\* the three sed commands on module.go
PatchModuleGo(file) ==
    sed_a(sed_i(sed_a(file, ANCHOR_MODULE_STRUCT, <<EntityFieldLine>>),
                ANCHOR_MODULE_RETURN, EntityWiringBlock(ARCH_TYPE)),
          ANCHOR_MODULE_RETURN, <<EntityReturnLine>>)

EntityPatchModule ==
    /\ tool = "entity"
    /\ pc = "module.go"
    /\ IF MODULE_NAME \in DOMAIN module_go
       THEN /\ module_go' = [module_go EXCEPT ![MODULE_NAME] = PatchModuleGo(@)]
            /\ out' = Append(out, "Updated module.go")
            /\ pc' = "routes.go"
            /\ UNCHANGED <<tool, exit_code>>
       ELSE \* sed: can't read module.go; set -e ends the run
            /\ module_go' = module_go
            /\ out' = out
            /\ pc' = "exit"
            /\ tool' = "none"
            /\ exit_code' = 2
    /\ UNCHANGED <<runs, MODULE_NAME, ARCH_TYPE, ENTITY_NAME, fieldVars,
                   dirs, routes_go, container_go, register_routes_go, gen_files>>

\* the sed command on routes.go
PatchRoutesGo(file) == sed_a(file, ANCHOR_ROUTES_FUNC, EntityRouteBlock)

\* the routes.go step handing control back to the module.go step
EntityPatchRoutes_reenter ==
    /\ tool = "entity"
    /\ pc = "routes.go"
    /\ MODULE_NAME \in DOMAIN routes_go
    /\ routes_go' = [routes_go EXCEPT ![MODULE_NAME] = PatchRoutesGo(@)]
    /\ out' = Append(out, "Updated routes.go")
    /\ pc' = IF Len(out) < 12 THEN "module.go" ELSE "report"
    /\ UNCHANGED <<tool, exit_code>>
    /\ UNCHANGED <<runs, MODULE_NAME, ARCH_TYPE, ENTITY_NAME, fieldVars,
                   dirs, module_go, container_go, register_routes_go, gen_files>>

EntityPatchRoutes ==
    /\ tool = "entity"
    /\ pc = "routes.go"
    /\ IF MODULE_NAME \in DOMAIN routes_go
       THEN /\ routes_go' = [routes_go EXCEPT ![MODULE_NAME] = PatchRoutesGo(@)]
            /\ out' = Append(out, "Updated routes.go")
            /\ pc' = "report"
            /\ UNCHANGED <<tool, exit_code>>
       ELSE /\ routes_go' = routes_go
            /\ out' = out
            /\ pc' = "exit"
            /\ tool' = "none"
            /\ exit_code' = 2
    /\ UNCHANGED <<runs, MODULE_NAME, ARCH_TYPE, ENTITY_NAME, fieldVars,
                   dirs, module_go, container_go, register_routes_go, gen_files>>

\* the text echo prints for a line given as pieces
RECURSIVE Str(_)
Str(pieces) == IF pieces = <<>> THEN "" ELSE Head(pieces) \o Str(Tail(pieces))

\* a CREATE TABLE statement whose field columns are printed in reverse
ReportTable_reversed ==
    << Str(<<"CREATE TABLE ">> \o ENTITY_NAME_LOWER \o <<"s (">>),
       "id VARCHAR(36) PRIMARY KEY," >>
    \o [i \in 1..Len(FIELDS) |->
           Str(cut(FIELDS[Len(FIELDS) + 1 - i], 1) \o <<" ">>
                   \o cut(FIELDS[Len(FIELDS) + 1 - i], 2) \o <<",">>)]
    \o << "created_at TIMESTAMP DEFAULT CURRENT_TIMESTAMP,",
          "updated_at TIMESTAMP DEFAULT CURRENT_TIMESTAMP ON UPDATE CURRENT_TIMESTAMP",
          ");" >>

\* the CREATE TABLE statement of the report
ReportTable ==
    << Str(<<"CREATE TABLE ">> \o ENTITY_NAME_LOWER \o <<"s (">>),
       "id VARCHAR(36) PRIMARY KEY," >>
    \o [i \in 1..Len(FIELDS) |->
           Str(cut(FIELDS[i], 1) \o <<" ">> \o cut(FIELDS[i], 2) \o <<",">>)]
    \o << "created_at TIMESTAMP DEFAULT CURRENT_TIMESTAMP,",
          "updated_at TIMESTAMP DEFAULT CURRENT_TIMESTAMP ON UPDATE CURRENT_TIMESTAMP",
          ");" >>

\* an endpoint list without the line of GET /<entity>s
ReportEndpoints_no_list ==
    << Str(<<"POST", " /">> \o ENTITY_NAME_LOWER \o <<"s">>),
       Str(<<"GET", " /">> \o ENTITY_NAME_LOWER \o <<"s", "/:id">>),
       Str(<<"PUT", " /">> \o ENTITY_NAME_LOWER \o <<"s", "/:id">>),
       Str(<<"DELETE", " /">> \o ENTITY_NAME_LOWER \o <<"s", "/:id">>) >>

\* "API Endpoints created:": verb and path of each line (the padding between
\* the columns and the description after " - " are left out)
ReportEndpoints ==
    << Str(<<"POST", " /">> \o ENTITY_NAME_LOWER \o <<"s">>),
       Str(<<"GET", " /">> \o ENTITY_NAME_LOWER \o <<"s", "/:id">>),
       Str(<<"GET", " /">> \o ENTITY_NAME_LOWER \o <<"s">>),
       Str(<<"PUT", " /">> \o ENTITY_NAME_LOWER \o <<"s", "/:id">>),
       Str(<<"DELETE", " /">> \o ENTITY_NAME_LOWER \o <<"s", "/:id">>) >>

\* success line, CREATE TABLE statement, endpoint list
EntityReport ==
    /\ tool = "entity"
    /\ pc = "report"
    /\ out' = Append(out, MSG_ENTITY_OK) \o <<"SQL to create the table:">> \o ReportTable
                  \o <<"API Endpoints created:">> \o ReportEndpoints
    /\ tool' = "none"
    /\ pc' = "exit"
    /\ exit_code' = 0
    /\ UNCHANGED <<runs, MODULE_NAME, ARCH_TYPE, ENTITY_NAME, fieldVars, fsVars>>

-----------------------------------------------------------------------------
(* The project as the repository ships it, and the tools run on it.        *)

InitRun ==
    /\ tool = "none"
    /\ pc = "exit"
    /\ exit_code = 0
    /\ out = <<>>
    /\ runs = 0
    /\ MODULE_NAME = <<>>
    /\ ARCH_TYPE = ""
    /\ ENTITY_NAME = <<>>
    /\ FIELDS = NoFields
    /\ FIELD_NAMES = <<>>
    /\ field_input = <<>>
    /\ field_type_mysql = <<>>
    /\ field_type_go = ""
    /\ field_name_snake = <<>>
    /\ field_name_camel = <<>>
    /\ field_name_pascal = <<>>

InitFiles ==
    /\ dirs = [m \in {SIMPLE_MODULE, M_HEALTH} |->
                  IF m = SIMPLE_MODULE THEN SimpleModuleDirs
                  ELSE {<<"core", "application", "usecases">>, <<"infra", "web">>}]
    /\ module_go = [m \in {SIMPLE_MODULE} |-> SimpleModuleGo]
    /\ routes_go = [m \in {SIMPLE_MODULE} |-> SimpleRoutesGo]
    /\ container_go = ContainerGo
    /\ register_routes_go \in {RegisterRoutesGo, RegisterRoutesGoEdited}
    /\ gen_files = [q \in {} |-> <<>>]

Init == InitRun /\ InitFiles

Next ==
    \/ \E raw \in ModuleNameInputs, choice \in ArchInputs : ModuleStart(raw, choice)
    \/ ModuleEmit
    \/ ModulePatchContainer
    \/ ModulePatchRoutes
    \/ ModuleReport
    \/ \E m \in {NormalizeModuleName(raw) : raw \in ModuleNameInputs} : RemoveModuleDir(m)
    \/ \E m \in EntityModuleInputs, e \in EntityNameInputs : EntityStart(m, e)
    \/ \E line \in MainFieldInputs : FieldAdd(line)
    \/ FieldBlank
    \/ FieldDone
    \/ EntityEmit
    \/ EntityPatchModule
    \/ EntityPatchRoutes
    \/ EntityReport

Spec == Init /\ [][Next]_vars

-----------------------------------------------------------------------------
(* The field collector alone: one entity run of the shipped project, at    *)
(* the field prompt, fed every kind of line.                               *)

N_CARD_SNAKE == <<"c","a","r","d","_","n","o">>
N_CARD_PASCAL == <<"C","a","r","d","N","o">>
N_CARD_KEBAB == <<"c","a","r","d","-","n","o">>
N_NAME == <<"n","a","m","e">>

FieldNameInputs ==
    {N_CARD_SNAKE, N_CARD_PASCAL, N_CARD_KEBAB, N_NAME,
     <<"c","a","r","d","N","o">>, <<"N","a","m","e">>,
     <<"a","_","b","_","c">>, <<"a","B","C">>,
     <<"k","e","y","2","I","d">>, <<"U","R","L","p","a","t","h">>,
     <<"i","d">>, <<"c","r","e","a","t","e","d","_","a","t">>}

\* the tokens of the guide's table and of map_mysql_to_go
TableTokens ==
    {W_VARCHAR, W_CHAR, W_TEXT, W_MEDIUMTEXT, W_LONGTEXT, W_TINYTEXT,
     W_INT, W_TINYINT, W_SMALLINT, W_MEDIUMINT, W_BIGINT,
     W_FLOAT, W_DOUBLE, W_DECIMAL, W_BOOL, W_BOOLEAN,
     W_DATE, W_DATETIME, W_TIMESTAMP}

SIZE_SUFFIX == <<"(","9",")">>

\* tokens outside the table
OtherTokens ==
    {<<>>, <<"J","S","O","N">>, <<"b","l","o","b">>, <<"E","N","U","M">>,
     <<"Y","E","A","R">>, <<"T","I","M","E">>, <<"U","U","I","D">>,
     <<"X","I","N","T">>, <<" ">> \o W_INT, <<"N","U","M","E","R","I","C">>}

MixedCase(w) == [i \in 1..Len(w) |-> IF i = 1 THEN w[i] ELSE ToLowerChar(w[i])]

TypeInputs ==
    TableTokens
    \cup {tr_lower(w) : w \in {W_VARCHAR, W_TEXT, W_INT, W_BIGINT, W_DOUBLE, W_BOOL,
                               W_DATE, W_TIMESTAMP}}
    \cup {w \o SIZE_SUFFIX : w \in {W_VARCHAR, W_CHAR, W_INT, W_DECIMAL}}
    \cup {MixedCase(w) : w \in {W_TINYTEXT, W_MEDIUMINT, W_BOOLEAN}}
    \cup OtherTokens

CollectorInputs ==
    {n \o <<":">> \o W_VARCHAR : n \in FieldNameInputs}
    \cup {N_NAME \o <<":">> \o t : t \in TypeInputs}
    \cup {N_NAME, <<":">> \o W_INT, N_NAME \o <<":">> \o W_INT \o <<":">> \o W_DATE}

InitFields ==
    /\ InitFiles
    /\ register_routes_go = RegisterRoutesGo
    /\ tool = "entity"
    /\ pc = "fields"
    /\ exit_code = 0
    /\ out = <<"Entity name">>
    /\ runs = 1
    /\ MODULE_NAME = SIMPLE_MODULE
    /\ ARCH_TYPE = "4tier"
    /\ ENTITY_NAME = E_USER
    /\ FIELDS = NoFields
    /\ FIELD_NAMES = <<>>
    /\ field_input = <<>>
    /\ field_type_mysql = <<>>
    /\ field_type_go = ""
    /\ field_name_snake = <<>>
    /\ field_name_camel = <<>>
    /\ field_name_pascal = <<>>

NextFields ==
    \/ \E line \in CollectorInputs : FieldAdd(line)
    \/ FieldBlank
    \/ FieldDone

SpecFields == InitFields /\ [][NextFields]_vars

-----------------------------------------------------------------------------
(* One entity generation into a module create-module.sh has just made, in  *)
(* either style, with a varied field list.                                 *)

EmitFieldInputs ==
    {F_NAME,
     N_CARD_PASCAL \o <<":">> \o W_INT,
     <<"p","r","i","c","e",":">> \o W_DECIMAL \o <<"(","1","0",",","2",")">>,
     <<"d","u","e","_","o","n",":">> \o tr_lower(W_DATE),
     <<"i","s","_","o","k",":">> \o W_BOOLEAN}

InitEmit ==
    \E a \in {"1", "2"} :
        LET m == NormalizeModuleName(M_SHOP)
        IN  /\ dirs = [x \in {SIMPLE_MODULE, M_HEALTH, m} |->
                          IF x = SIMPLE_MODULE THEN SimpleModuleDirs
                          ELSE IF x = m THEN (IF a = "1" THEN DIRS_4TIER ELSE DIRS_DDD)
                          ELSE {<<"core", "application", "usecases">>, <<"infra", "web">>}]
            /\ module_go = [x \in {SIMPLE_MODULE, m} |->
                               IF x = m THEN ModuleGoTemplate(m, a) ELSE SimpleModuleGo]
            /\ routes_go = [x \in {SIMPLE_MODULE, m} |->
                               IF x = m THEN RoutesGoTemplate(m, a) ELSE SimpleRoutesGo]
            /\ container_go = ContainerSteps(ContainerGo, m, a)[5]
            /\ register_routes_go = RoutesSteps(RegisterRoutesGo, m, a)[3]
            /\ gen_files = [q \in {} |-> <<>>]
            /\ tool = "entity"
            /\ pc = "fields"
            /\ exit_code = 0
            /\ out = <<"Entity name">>
            /\ runs = 2
            /\ MODULE_NAME = m
            /\ ARCH_TYPE = (IF a = "1" THEN "4tier" ELSE "ddd")
            /\ ENTITY_NAME = E_USER
            /\ FIELDS = NoFields
            /\ FIELD_NAMES = <<>>
            /\ field_input = <<>>
            /\ field_type_mysql = <<>>
            /\ field_type_go = ""
            /\ field_name_snake = <<>>
            /\ field_name_camel = <<>>
            /\ field_name_pascal = <<>>

NextEmit ==
    \/ \E line \in EmitFieldInputs : FieldAdd(line)
    \/ FieldBlank
    \/ FieldDone
    \/ EntityEmit
    \/ EntityPatchModule
    \/ EntityPatchRoutes
    \/ EntityReport

SpecEmit == InitEmit /\ [][NextEmit]_vars

-----------------------------------------------------------------------------
(* create-module.sh alone, with a module name of two words.                *)

ModuleNamesTyped == {<<>>, M_SHOP, <<"U","s","e","r"," ","M","a","n","a","g","e","m","e","n","t">>}

NextModule ==
    \/ \E raw \in ModuleNamesTyped, choice \in ArchInputs : ModuleStart(raw, choice)
    \/ ModuleEmit
    \/ ModulePatchContainer
    \/ ModulePatchRoutes
    \/ ModuleReport
    \/ \E m \in {NormalizeModuleName(raw) : raw \in ModuleNamesTyped} : RemoveModuleDir(m)

\* the shipped tree, container.go as shipped or with the comment line
\* "Initialize modules ..." edited away
InitModule ==
    /\ InitRun
    /\ dirs = [m \in {SIMPLE_MODULE, M_HEALTH} |->
                  IF m = SIMPLE_MODULE THEN SimpleModuleDirs
                  ELSE {<<"core", "application", "usecases">>, <<"infra", "web">>}]
    /\ module_go = [m \in {SIMPLE_MODULE} |-> SimpleModuleGo]
    /\ routes_go = [m \in {SIMPLE_MODULE} |-> SimpleRoutesGo]
    /\ container_go \in {ContainerGo,
                         SelectSeq(ContainerGo, LAMBDA l : ~Matches(l, ANCHOR_INIT_MODULES))}
    /\ register_routes_go = RegisterRoutesGo
    /\ gen_files = [q \in {} |-> <<>>]

SpecModule == InitModule /\ [][NextModule]_vars

-----------------------------------------------------------------------------
(* Properties of the two generators run on the project.                    *)

\* every file of the entity named at the prompt is already on disk
EntityFilesPresent ==
    \A i \in 1..Len(EntityFiles(ARCH_TYPE)) : EntityFiles(ARCH_TYPE)[i][1] \in DOMAIN gen_files

\* C1: an entity run that finds the files of the same module and entity already
\* on disk stops before it writes: its next step changes no generated file, no
\* module.go and no routes.go, and ends the run with a failure.
C1_NonClobber ==
    [][ (tool = "entity" /\ pc = "emit" /\ EntityFilesPresent)
            => /\ UNCHANGED <<gen_files, module_go, routes_go>>
               /\ pc' = "exit"
               /\ exit_code' # 0 ]_vars

\* C2: a patch step whose target file exists but lacks the anchor ends the run
\* with an error (so "created successfully" is never printed by that run).
C2_AnchorFailureIsFatal ==
    [][ /\ (tool = "module" /\ pc = "container"
              /\ \E an \in {ANCHOR_IMPORT, ANCHOR_CONTAINER_STRUCT, ANCHOR_INIT_MODULES,
                            ANCHOR_CONTAINER_RETURN} : ~grep_q(container_go, an))
            => (pc' = "exit" /\ exit_code' # 0)
        /\ (tool = "module" /\ pc = "routes"
              /\ \E an \in {ANCHOR_IMPORT, ANCHOR_REGISTER} : ~grep_q(register_routes_go, an))
            => (pc' = "exit" /\ exit_code' # 0)
        /\ (tool = "entity" /\ pc = "module.go" /\ MODULE_NAME \in DOMAIN module_go
              /\ \E an \in {ANCHOR_MODULE_STRUCT, ANCHOR_MODULE_RETURN} :
                    ~grep_q(module_go[MODULE_NAME], an))
            => (pc' = "exit" /\ exit_code' # 0)
        /\ (tool = "entity" /\ pc = "routes.go" /\ MODULE_NAME \in DOMAIN routes_go
              /\ ~grep_q(routes_go[MODULE_NAME], ANCHOR_ROUTES_FUNC))
            => (pc' = "exit" /\ exit_code' # 0) ]_vars

\* number of lines of the file that are one of the given lines
CountIn(file, lines) == Cardinality({i \in 1..Len(file) : file[i] \in lines})

\* number of lines of the file the pattern matches
CountMatches(file, p) == Cardinality({i \in 1..Len(file) : Matches(file[i], p)})

Styles == {"1", "2"}

\* C3: whatever module runs were made for a name, in whichever style, the two
\* composition-root files hold at most one import, one field, one
\* initialization line, one return entry and one route call for that name.
\* (Files whose anchor occurs on several lines are the subject of C5.)
C3_AtMostOnePerModule ==
    \A raw \in ModuleNameInputs \ {<<>>} :
        LET m == NormalizeModuleName(raw)
        IN  /\ CountIn(container_go, {ContainerImportLine(m, a) : a \in Styles}) <= 1
            /\ CountIn(container_go, {ContainerFieldLine(m, a) : a \in Styles}) <= 1
            /\ CountIn(container_go, {ContainerInitLine(m, a) : a \in Styles}) <= 1
            /\ CountIn(container_go, {ContainerReturnLine(m)}) <= 1
            /\ CountMatches(register_routes_go, ANCHOR_REGISTER) <= 1
                  => /\ CountIn(register_routes_go, {RoutesImportLine(m, a) : a \in Styles}) <= 1
                     /\ CountIn(register_routes_go, {RoutesCallLine(m, a) : a \in Styles}) <= 1

\* new is old with lines of the payload inserted: every line of old is still
\* there, unmodified and in the same order, and every other line is payload
RECURSIVE Additive(_, _, _)
Additive(old, new, payload) ==
    IF old = <<>> THEN \A i \in 1..Len(new) : new[i] \in payload
    ELSE IF new = <<>> THEN FALSE
    ELSE IF Head(new) = Head(old) THEN Additive(Tail(old), Tail(new), payload)
    ELSE Head(new) \in payload /\ Additive(old, Tail(new), payload)

ContainerPayload ==
    {ContainerImportLine(MODULE_NAME, ARCH_TYPE), ContainerFieldLine(MODULE_NAME, ARCH_TYPE),
     ContainerInitLine(MODULE_NAME, ARCH_TYPE), ContainerReturnLine(MODULE_NAME)}

RegisterRoutesPayload ==
    {RoutesImportLine(MODULE_NAME, ARCH_TYPE), RoutesCallLine(MODULE_NAME, ARCH_TYPE)}

ModuleGoPayload == {EntityFieldLine, EntityReturnLine} \cup Range(EntityWiringBlock(ARCH_TYPE))

RoutesGoPayload == Range(EntityRouteBlock)

\* C4: a step of either generator leaves every line a patched file had in
\* place, unmodified and in order; what it adds is payload of the run.
C4_PatchesAdditive ==
    [][ /\ Additive(container_go, container_go', ContainerPayload)
        /\ Additive(register_routes_go, register_routes_go', RegisterRoutesPayload)
        /\ \A m \in (DOMAIN module_go) \cap (DOMAIN module_go') :
              Additive(module_go[m], module_go'[m], ModuleGoPayload)
        /\ \A m \in (DOMAIN routes_go) \cap (DOMAIN routes_go') :
              Additive(routes_go[m], routes_go'[m], RoutesGoPayload) ]_vars

\* both generators have patched: the module run its two files, the entity run
\* the module.go and routes.go of that module
C4_Witness ==
    /\ tool = "entity"
    /\ pc = "report"
    /\ CountIn(container_go, ContainerPayload) = 4
    /\ CountIn(register_routes_go, RegisterRoutesPayload) >= 2
    /\ CountIn(module_go[MODULE_NAME], {EntityFieldLine, EntityReturnLine}) = 2
    /\ CountIn(routes_go[MODULE_NAME], RoutesGoPayload) > 0

AddedMessages ==
    {"Added import to container.go", "Added field to Container struct",
     "Added module initialization to New function",
     "Added field to Container return statement",
     "Added import to register_routes.go",
     "Added route registration to register_routes.go"}

\* number of insertions the step reports
AddedIn(before, after) ==
    Cardinality({i \in (Len(before) + 1)..Len(after) : after[i] \in AddedMessages})

FirstMatch(file, p) ==
    CHOOSE i \in 1..Len(file) :
        Matches(file[i], p) /\ \A j \in 1..(i - 1) : ~Matches(file[j], p)

\* C5: a patch adds one copy of its payload, at the first line the anchor
\* matches, also when the anchor matches several lines.
C5_PayloadOnceAtFirstMatch ==
    [][ /\ (tool = "module" /\ pc = "container")
            => Len(container_go') = Len(container_go) + AddedIn(out, out')
        /\ (tool = "module" /\ pc = "routes")
            => /\ Len(register_routes_go') = Len(register_routes_go) + AddedIn(out, out')
               /\ out'[Len(out')] = "Added route registration to register_routes.go"
                     => register_routes_go'[FirstMatch(register_routes_go', ANCHOR_REGISTER) + 1]
                           = RoutesCallLine(MODULE_NAME, ARCH_TYPE)
        /\ (tool = "entity" /\ pc = "module.go" /\ MODULE_NAME \in DOMAIN module_go
              /\ grep_q(module_go[MODULE_NAME], ANCHOR_MODULE_STRUCT)
              /\ grep_q(module_go[MODULE_NAME], ANCHOR_MODULE_RETURN))
            => Len(module_go'[MODULE_NAME])
                  = Len(module_go[MODULE_NAME]) + 2 + Len(EntityWiringBlock(ARCH_TYPE))
        /\ (tool = "entity" /\ pc = "routes.go" /\ MODULE_NAME \in DOMAIN routes_go
              /\ grep_q(routes_go[MODULE_NAME], ANCHOR_ROUTES_FUNC))
            => Len(routes_go'[MODULE_NAME])
                  = Len(routes_go[MODULE_NAME]) + Len(EntityRouteBlock) ]_vars

-----------------------------------------------------------------------------
(* Properties of the generated repository code.                            *)

\* the items of the named section of a file
SectionOf(file, name) == file[CHOOSE i \in 1..Len(file) : file[i][1] = name][2]

\* the repository implementation the run writes
RepoPath ==
    IF ARCH_TYPE = "ddd"
    THEN GenPath(<<"infra", "repositories">>, ENTITY_NAME_LOWER \o <<"_mysql_repository.go">>)
    ELSE GenPath(<<"repositories">>, ENTITY_NAME_LOWER \o <<"_repository.go">>)

\* the run has written its files
Emitted == tool = "entity" /\ pc \in {"module.go", "routes.go", "report"}

\* the attribute a column, a bound value or a scan destination stands for
AttributeOf(column) == capitalize(to_camel_case(column))

\* the columns the statements list: identifier, the fields as typed, timestamps
ExpectedColumns ==
    << <<"id">> >> \o [i \in 1..Len(FIELD_NAMES) |-> FIELD_NAMES[i]]
                \o << <<"created_at">>, <<"updated_at">> >>

\* item i of the list is the fixed identifier or timestamp item, or names the
\* attribute of the i-th column
NamesColumn(item, i, n) ==
    IF i = 1 THEN \E id \in {"Id", "ID"} : Contains(item, <<id>>)
    ELSE IF i = n - 1 THEN Contains(item, <<"CreatedAt">>)
    ELSE IF i = n THEN Contains(item, <<"UpdatedAt">>)
    ELSE LET a == AttributeOf(ExpectedColumns[i])
         IN  \E pre \in {"entity.Get", "entity.", "&dbEntity.", "&entity."} :
                 StartsWith(item, <<pre>> \o a)
                 /\ Len(item) <= Len(a) + 2

Aligned(columns, values) ==
    /\ columns = ExpectedColumns
    /\ Len(values) = Len(columns)
    /\ \A i \in 1..Len(values) : NamesColumn(values[i], i, Len(values))

RepoLists(L(_)) ==
    LET f == gen_files[RepoPath]
    IN  /\ L(SectionOf(f, "Save.columns"))
        /\ L(SectionOf(f, "Save.placeholders")[1])
        /\ L(SectionOf(f, "Save.args"))
        /\ L(SectionOf(f, "FindById.columns"))
        /\ L(SectionOf(f, "FindById.scan"))
        /\ L(SectionOf(f, "FindAll.columns"))
        /\ L(SectionOf(f, "FindAll.scan"))

RepoAligned ==
    LET f == gen_files[RepoPath]
    IN  /\ Aligned(SectionOf(f, "Save.columns"), SectionOf(f, "Save.args"))
        /\ Aligned(SectionOf(f, "FindById.columns"), SectionOf(f, "FindById.scan"))
        /\ Aligned(SectionOf(f, "FindAll.columns"), SectionOf(f, "FindAll.scan"))

\* C6 as stated: the INSERT column list, its bound values and the scan lists
\* of FindById and FindAll have N+1 entries each and the same order.
C6_AlignedWithNPlus1 ==
    Emitted => /\ RepoLists(LAMBDA l : Len(l) = Len(FIELDS) + 1)
               /\ RepoAligned

\* C6 amended: the lists have N+3 entries each (identifier, the N fields,
\* created_at, updated_at) and agree position by position, in both styles.
C6_AlignedWithNPlus3 ==
    Emitted => /\ RepoLists(LAMBDA l : Len(l) = Len(FIELDS) + 3)
               /\ RepoAligned

C6_Witness ==
    /\ Emitted
    /\ ARCH_TYPE = "4tier"
    /\ Len(FIELDS) = 2
    /\ FIELD_NAMES[1] # FIELD_NAMES[2]
    /\ Len(SectionOf(gen_files[RepoPath], "Save.args")) = 5

\* sections that hold no field list
NonFieldSections ==
    {"import", "table", "operations", "methods", "Validate", "Save.placeholders",
     "DeleteInputDTO", "FindById.from", "FindById.args", "FindAll.from", "FindAll.args",
     "Count.query", "Update.where", "Delete.query", "Delete.args",
     "Create.now", "Update.touch"}

\* the item is about the k-th field typed
Mentions(item, k) ==
    \/ Contains(item, FIELD_NAMES[k])
    \/ Contains(item, to_camel_case(FIELD_NAMES[k]))
    \/ Contains(item, AttributeOf(FIELD_NAMES[k]))

\* the list holds the N fields in the order typed, after h fixed items
InFieldOrder(items) ==
    \E h \in 0..(Len(items) - Len(FIELD_NAMES)) :
        \A k \in 1..Len(FIELD_NAMES) : Mentions(items[h + k], k)

\* C7: every field list of every generated file (struct declarations,
\* parameter lists, argument lists at the call sites, column lists, bound
\* values, scan destinations) holds the fields in the order they were typed.
C7_FieldOrderEverywhere ==
    Emitted =>
        \A i \in 1..Len(EntityFiles(ARCH_TYPE)) :
            LET f == gen_files[EntityFiles(ARCH_TYPE)[i][1]]
            IN  \A j \in 1..Len(f) :
                    f[j][1] \notin NonFieldSections => InFieldOrder(f[j][2])

C7_Witness ==
    /\ Emitted
    /\ ARCH_TYPE = "ddd"
    /\ Len(FIELD_NAMES) = 2
    /\ FIELD_NAMES[1] # FIELD_NAMES[2]
    /\ \A i \in 1..Len(EntityFiles("ddd")) : EntityFiles("ddd")[i][1] \in DOMAIN gen_files
    /\ Len(SectionOf(gen_files[RepoPath], "mapToDomain.args")) = 5

-----------------------------------------------------------------------------
(* Properties of the field prompt: names and storage types.                *)

\* a line has just been accepted as a field
Accepted == tool = "entity" /\ pc = "fields" /\ field_input # <<>> /\ Len(FIELDS) > 0

\* the name typed on the line
TypedName(line) == SplitOn(line, ":")[1]

NameTriple == <<field_name_snake, field_name_camel, field_name_pascal>>

\* a logical identifier is a list of lower-case words
Identifiers ==
    { << <<"c","a","r","d">>, <<"n","o">> >>,
      << <<"n","a","m","e">> >>,
      << <<"a">>, <<"b">>, <<"c">> >> }

JoinWords(words, sep) ==
    Flatten([i \in 1..Len(words) |-> IF i = 1 THEN words[i] ELSE sep \o words[i]])

PascalSpelling(words) ==
    Flatten([i \in 1..Len(words) |-> <<ToUpperChar(words[i][1])>> \o Tail(words[i])])

CamelSpelling(words) ==
    <<ToLowerChar(PascalSpelling(words)[1])>> \o Tail(PascalSpelling(words))

Spellings(words) ==
    {JoinWords(words, <<"_">>), JoinWords(words, <<"-">>),
     CamelSpelling(words), PascalSpelling(words)}

SameIdentifier(a, b) == \E w \in Identifiers : a \in Spellings(w) /\ b \in Spellings(w)

\* C8: two spellings of one identifier typed one after the other give the same
\* (column, private, public) names; so does a derived name typed back in.
C8_NamingIdempotent ==
    [][ (Accepted /\ tool' = "entity" /\ pc' = "fields" /\ Len(FIELDS') = Len(FIELDS) + 1
           /\ \/ SameIdentifier(TypedName(field_input), TypedName(field_input'))
              \/ TypedName(field_input') \in Range(NameTriple))
            => NameTriple' = NameTriple ]_vars

\* the typed name cut at every '_' and '-' and before every upper-case letter
\* that follows a lower-case one
RECURSIVE Segments(_, _, _)
Segments(rest, cur, acc) ==
    IF rest = <<>> THEN Append(acc, cur)
    ELSE IF Head(rest) \in {"_", "-"} THEN Segments(Tail(rest), <<>>, Append(acc, cur))
    ELSE IF cur # <<>> /\ IsLower(cur[Len(cur)]) /\ IsUpper(Head(rest))
         THEN Segments(Tail(rest), <<Head(rest)>>, Append(acc, cur))
    ELSE Segments(Tail(rest), Append(cur, Head(rest)), acc)

WordsOf(name) == [i \in 1..Len(Segments(name, <<>>, <<>>)) |->
                      tr_lower(Segments(name, <<>>, <<>>)[i])]

CapWord(w) == IF w = <<>> THEN <<>> ELSE <<ToUpperChar(w[1])>> \o Tail(w)

ColumnNameOf(name) == JoinWords(WordsOf(name), <<"_">>)

PrivateNameOf(name) ==
    Flatten([i \in 1..Len(WordsOf(name)) |->
                IF i = 1 THEN WordsOf(name)[i] ELSE CapWord(WordsOf(name)[i])])

PublicNameOf(name) == CapWord(PrivateNameOf(name))

\* C9: the names stored for an accepted field are those of the segment rule
\* applied to the name typed.
C9_SegmentRule ==
    (Accepted /\ TypedName(field_input) # <<>>)
        => /\ field_name_snake = ColumnNameOf(TypedName(field_input))
           /\ field_name_camel = PrivateNameOf(TypedName(field_input))
           /\ field_name_pascal = PublicNameOf(TypedName(field_input))

\* the table of the guide: a prefix and the type it stands for
TypeTable ==
    {<<W_VARCHAR, "string">>, <<W_CHAR, "string">>, <<W_TEXT, "string">>,
     <<W_TINYTEXT, "string">>, <<W_MEDIUMTEXT, "string">>, <<W_LONGTEXT, "string">>,
     <<W_INT, "int">>, <<W_TINYINT, "int">>, <<W_SMALLINT, "int">>,
     <<W_MEDIUMINT, "int">>, <<W_BIGINT, "int">>,
     <<W_FLOAT, "float64">>, <<W_DOUBLE, "float64">>, <<W_DECIMAL, "float64">>,
     <<W_BOOL, "bool">>, <<W_BOOLEAN, "bool">>,
     <<W_DATE, "time.Time">>, <<W_DATETIME, "time.Time">>, <<W_TIMESTAMP, "time.Time">>}

\* the storage type typed on a line that has one
TypedType(line) == SplitOn(line, ":")[2]

\* the rows of the table whose prefix the typed type begins with, letter case aside
RowsFor(typed) == {r \in TypeTable : StartsWith(tr_upper(typed), r[1])}

\* C10: the type stored for an accepted field is the one of every table row
\* its storage type begins with (whatever the letter case, with or without a
\* size), and string when there is no such row; the run goes on.
C10_TypeMappingTotal ==
    (Accepted /\ ":" \in Range(field_input))
        => /\ \A r \in RowsFor(TypedType(field_input)) : field_type_go = r[2]
           /\ RowsFor(TypedType(field_input)) = {} => field_type_go = "string"
           /\ field_type_go \in {"string", "int", "float64", "bool", "time.Time"}
           /\ cut(FIELDS[Len(FIELDS)], 3) = <<field_type_go>>
           /\ exit_code = 0

\* a lower-case temporal type after a type outside the table
C10_Witness ==
    /\ Accepted
    /\ Len(FIELDS) = 2
    /\ cut(FIELDS[1], 2) = <<"J","S","O","N">>
    /\ cut(FIELDS[1], 3) = <<"string">>
    /\ ":" \in Range(field_input)
    /\ TypedType(field_input) = tr_lower(W_TIMESTAMP)
    /\ field_type_go = "time.Time"

-----------------------------------------------------------------------------
(* Properties of the field prompt: malformed lines and the sentinel.       *)

\* C11: a line without ':' adds nothing to the field list, is answered with a
\* diagnostic instead of "Added field", and the prompt goes on.
C11_NoSeparatorRejected ==
    [][ (tool = "entity" /\ pc = "fields" /\ field_input' \notin {<<>>, DONE}
           /\ ":" \notin Range(field_input')
           /\ <<FIELDS, field_input, out>> # <<FIELDS', field_input', out'>>)
            => /\ FIELDS' = FIELDS
               /\ FIELD_NAMES' = FIELD_NAMES
               /\ tool' = "entity" /\ pc' = "fields"
               /\ out'[Len(out')] # "Added field" ]_vars

\* C12: every entry of the field list has a non-empty name.
C12_NamesNonEmpty ==
    /\ \A i \in 1..Len(FIELDS) : cut(FIELDS[i], 1) # <<>>
    /\ \A i \in 1..Len(FIELD_NAMES) : FIELD_NAMES[i] # <<>>

\* C13: 'done' entered while the field list is empty ends the run with a
\* non-zero exit status, and from the start of the run up to that point no
\* directory and no file has been created or changed.
C13_ZeroFieldsAbort ==
    [][ /\ (tool = "entity" /\ pc = "fields" /\ Len(FIELDS) = 0
              /\ field_input' = DONE /\ field_input # DONE)
            => /\ tool' = "none" /\ pc' = "exit"
               /\ exit_code' # 0
               /\ MSG_ENTITY_OK \notin Range(out')
        /\ ((tool = "none" /\ tool' = "entity") \/ (tool = "entity" /\ pc = "fields"))
            => UNCHANGED fsVars ]_vars

C13_Witness ==
    /\ tool = "none" /\ pc = "exit" /\ exit_code = 1
    /\ field_input = DONE
    /\ Len(FIELDS) = 0
    /\ ENTITY_NAME # <<>>
    /\ out = <<"At least one field is required">>

-----------------------------------------------------------------------------
(* Properties of the precondition checks of both scripts.                  *)

\* the step is the prompt phase of create-module.sh
ModuleStartStep ==
    /\ tool = "none"
    /\ runs' = runs + 1
    /\ ENTITY_NAME' = <<>>
    /\ \/ ARCH_TYPE' \in ArchInputs
       \/ (MODULE_NAME' = <<>> /\ out' = <<"Module name cannot be empty">>)

\* the step is the prompt phase of create-entity.sh
EntityStartStep ==
    /\ tool = "none"
    /\ runs' = runs + 1
    /\ ARCH_TYPE' \notin ArchInputs

\* C14: module generation for a name whose directory internal/<name> exists
\* (the name lower-cased, spaces replaced by '_') exits non-zero, and no
\* directory, no file, neither container.go nor register_routes.go has changed.
C14_ExistingModuleAbort ==
    [][ (ModuleStartStep /\ ARCH_TYPE' \in ArchInputs /\ MODULE_NAME' \in DOMAIN dirs)
            => /\ tool' = "none" /\ pc' = "exit"
               /\ exit_code' # 0
               /\ MSG_MODULE_OK \notin Range(out')
               /\ UNCHANGED fsVars ]_vars

C14_Witness ==
    /\ tool = "none" /\ pc = "exit" /\ exit_code = 1
    /\ ARCH_TYPE \in {"1", "2"}
    /\ MODULE_NAME \in DOMAIN dirs
    /\ MODULE_NAME = NormalizeModuleName(M_SHOP) /\ MODULE_NAME # M_SHOP
    /\ out = <<"Module already exists">>

\* no directory of the module is core/domain or models (or lies below one)
Undetectable(m) ==
    ~\E x \in dirs[m] :
        \/ (Len(x) >= 2 /\ SubSeq(x, 1, 2) = <<"core", "domain">>)
        \/ (Len(x) >= 1 /\ x[1] = "models")

\* C15: an empty module name (either script), an empty entity name, a choice
\* other than 1 or 2, a module directory that does not exist and a module of
\* undetectable architecture each end the run with a non-zero exit status and
\* with every directory and file as it was.
C15_PreconditionFailures ==
    [][ (\/ (ModuleStartStep /\ (MODULE_NAME' = <<>> \/ ARCH_TYPE' \notin {"1", "2"}))
         \/ (EntityStartStep /\ (\/ MODULE_NAME' = <<>>
                                 \/ MODULE_NAME' \notin DOMAIN dirs
                                 \/ Undetectable(MODULE_NAME')
                                 \/ ENTITY_NAME' = <<>>)))
            => /\ tool' = "none" /\ pc' = "exit"
               /\ exit_code' # 0
               /\ MSG_MODULE_OK \notin Range(out')
               /\ MSG_ENTITY_OK \notin Range(out')
               /\ UNCHANGED fsVars ]_vars

\* a run per failure has ended: here the one on the module without layout
C15_Witness ==
    /\ tool = "none" /\ pc = "exit" /\ exit_code = 1
    /\ MODULE_NAME = M_HEALTH
    /\ MODULE_NAME \in DOMAIN dirs
    /\ Undetectable(MODULE_NAME)
    /\ out = <<"Could not detect module architecture">>

-----------------------------------------------------------------------------
(* Properties that tie the two generators together.                        *)

\* the modules the model lets create-module.sh generate
GeneratedModules == {NormalizeModuleName(raw) : raw \in ModuleNameInputs \ {<<>>}}

\* number of places of the file where the block stands as consecutive lines
BlockCount(file, block) ==
    Cardinality({i \in 1..(Len(file) - Len(block) + 1) :
                    SubSeq(file, i, i + Len(block) - 1) = block})

\* the five route heads of the current entity found in a routes.go
RouteHeads(file) ==
    {i \in 1..Len(file) :
        /\ Len(file[i]) > 3 + Len(ENTITY_NAME_LOWER)
        /\ file[i][1] = "\trouter."
        /\ SubSeq(file[i], 4, 3 + Len(ENTITY_NAME_LOWER)) = ENTITY_NAME_LOWER
        /\ file[i][4 + Len(ENTITY_NAME_LOWER)] = "s"}

FlatLayout == {<<"models">>, <<"repositories">>, <<"services">>, <<"controllers">>}
LayeredLayout ==
    {<<"core", "application", "repositories">>, <<"core", "application", "usecases">>,
     <<"core", "domain", "entities">>, <<"infra", "repositories">>,
     <<"infra", "web", "controllers">>}

\* the generated files the step creates or rewrites
Written ==
    {q \in DOMAIN gen_files' : q \notin DOMAIN gen_files \/ gen_files'[q] # gen_files[q]}

\* C17: choice 1 makes the flat layout, which create-entity.sh detects as
\* 4tier; choice 2 makes the layered layout, detected as ddd; and every file
\* an entity run writes into a generated module lies in a directory that
\* create-module.sh made for that module.
C17_ArchitectureRoundTrip ==
    [][ /\ (tool = "module" /\ pc = "emit")
            => /\ MODULE_NAME \in DOMAIN dirs'
               /\ ARCH_TYPE = "1" => dirs'[MODULE_NAME] = FlatLayout
               /\ ARCH_TYPE = "2" => dirs'[MODULE_NAME] = LayeredLayout
        /\ (EntityStartStep /\ MODULE_NAME' \in GeneratedModules /\ MODULE_NAME' \in DOMAIN dirs)
            => /\ dirs[MODULE_NAME'] = FlatLayout => ARCH_TYPE' = "4tier"
               /\ dirs[MODULE_NAME'] = LayeredLayout => ARCH_TYPE' = "ddd"
               /\ dirs[MODULE_NAME'] \in {FlatLayout, LayeredLayout}
        /\ (tool = "entity" /\ pc = "emit" /\ MODULE_NAME \in GeneratedModules)
            => \A q \in Written : q[1] = MODULE_NAME /\ q[2] \in dirs[MODULE_NAME] ]_vars

\* an entity run has written its files into a module made with choice 2
C17_Witness ==
    /\ tool = "entity" /\ pc = "module.go"
    /\ MODULE_NAME \in GeneratedModules
    /\ ARCH_TYPE = "ddd"
    /\ dirs[MODULE_NAME] = LayeredLayout
    /\ Cardinality({q \in DOMAIN gen_files : q[1] = MODULE_NAME /\ q[2] \in LayeredLayout}) = 9

-----------------------------------------------------------------------------
(* Properties that compare the two styles.                                 *)

\* the sections of a repository file that make up its SQL statements
StorageSections ==
    {"table",
     "Save.columns", "Save.placeholders", "Save.args",
     "FindById.columns", "FindById.from", "FindById.args", "FindById.scan",
     "FindAll.columns", "FindAll.from", "FindAll.args", "FindAll.scan",
     "Update.set", "Update.where", "Update.args",
     "Delete.query", "Delete.args", "Count.query"}

\* how each style reaches an attribute of the entity
Accessors == {"entity.Get", "entity.", "&dbEntity.", "&entity.", "dbEntity.", "()"}

\* an item without its accessor, the identifier attribute spelled Id
Attribute(item) ==
    LET bare == SelectSeq(item, LAMBDA p : p \notin Accessors)
    IN  [i \in 1..Len(bare) |-> IF bare[i] = "ID" THEN "Id" ELSE bare[i]]

\* what a section binds, scans or lists, accessor spelling aside
ShapeOf(items) == [i \in 1..Len(items) |-> Attribute(items[i])]

\* number of '?' a section holds
Placeholders(items) ==
    LET all == Flatten(items)
    IN  Cardinality({i \in 1..Len(all) : all[i] \in {"?", " = ?"}})

HasSection(file, name) == \E i \in 1..Len(file) : file[i][1] = name

SameStorageShape(f, g) ==
    \A name \in StorageSections :
        /\ HasSection(f, name) /\ HasSection(g, name)
        /\ ShapeOf(SectionOf(f, name)) = ShapeOf(SectionOf(g, name))
        /\ Placeholders(SectionOf(f, name)) = Placeholders(SectionOf(g, name))

\* placeholders of a statement and the values bound to it
Balanced(f) ==
    /\ Placeholders(SectionOf(f, "Save.placeholders")) = Len(SectionOf(f, "Save.args"))
    /\ Placeholders(SectionOf(f, "FindById.from")) = Len(SectionOf(f, "FindById.args"))
    /\ Placeholders(SectionOf(f, "FindAll.from")) = Len(SectionOf(f, "FindAll.args"))
    /\ Placeholders(SectionOf(f, "Update.set")) + Placeholders(SectionOf(f, "Update.where"))
          = Len(SectionOf(f, "Update.args"))
    /\ Placeholders(SectionOf(f, "Delete.query")) = Len(SectionOf(f, "Delete.args"))
    /\ Placeholders(SectionOf(f, "Count.query")) = 0

\* the repository template of the style the run did not use
OtherStyleRepo == IF ARCH_TYPE = "ddd" THEN TierRepoFile ELSE DddRepoImplFile

\* C18: for one entity name and field list the repository written in one style
\* and the repository template of the other style name the same table and
\* hold, statement by statement (INSERT, SELECT by id, SELECT all, UPDATE,
\* DELETE, COUNT), the same columns, as many placeholders and the same order
\* of bound values and scan destinations.
C18_SameStorageShape ==
    Emitted => /\ SameStorageShape(gen_files[RepoPath], OtherStyleRepo)
               /\ SameStorageShape(TierRepoFile, DddRepoImplFile)
               /\ Balanced(gen_files[RepoPath]) /\ Balanced(OtherStyleRepo)

\* a layered run with two fields: its repository differs from the flat one in
\* the spelling of every accessor
C18_Witness ==
    /\ Emitted
    /\ ARCH_TYPE = "ddd"
    /\ Len(FIELDS) = 2
    /\ SectionOf(gen_files[RepoPath], "Update.args") # SectionOf(TierRepoFile, "Update.args")
    /\ Len(SectionOf(gen_files[RepoPath], "Update.args")) = 4
    /\ Placeholders(SectionOf(gen_files[RepoPath], "Save.placeholders")) = 5

-----------------------------------------------------------------------------
(* Properties of the set of files an entity run leaves.                    *)

\* the files the step creates: they were not there before
Created == {q \in DOMAIN gen_files' : q \notin DOMAIN gen_files}

\* number of created files in a directory of the module
CreatedIn(dir) == Cardinality({q \in Created : q[1] = MODULE_NAME /\ q[2] = dir})

\* the layered domain entity: constructor, Restore, Validate, a getter and a
\* setter per field
EntityFileComplete(f) ==
    /\ HasSection(f, "New.params") /\ HasSection(f, "Restore.params")
    /\ HasSection(f, "Validate")
    /\ Len(SectionOf(f, "setters")) = Len(FIELDS)
    /\ \A k \in 1..Len(FIELDS) :
          /\ \E g \in Range(SectionOf(f, "getters")) : g = <<"Get">> \o cut(FIELDS[k], 5)
          /\ \E g \in Range(SectionOf(f, "setters")) : g = <<"Set">> \o cut(FIELDS[k], 5)

\* C19: an entity run that reaches its success report has created exactly
\* four new files in a flat module (model, repository, service, controller)
\* and exactly nine in a layered one (entity with constructor, Restore,
\* Validate and a getter and setter per field; six-method repository
\* interface; repository implementation; five use cases; a controller with
\* five operations); of the files that existed before, only module.go and
\* routes.go of the module are changed.
C19_EmittedFileSet ==
    [][ /\ (tool = "entity" /\ pc = "emit")
            => /\ \A q \in DOMAIN gen_files : q \in DOMAIN gen_files' /\ gen_files'[q] = gen_files[q]
               /\ ARCH_TYPE = "4tier"
                     => /\ Cardinality(Created) = 4
                        /\ \A d \in FlatLayout : CreatedIn(d) = 1
               /\ ARCH_TYPE = "ddd"
                     => /\ Cardinality(Created) = 9
                        /\ CreatedIn(<<"core", "domain", "entities">>) = 1
                        /\ CreatedIn(<<"core", "application", "repositories">>) = 1
                        /\ CreatedIn(<<"infra", "repositories">>) = 1
                        /\ CreatedIn(<<"core", "application", "usecases">>) = 5
                        /\ CreatedIn(<<"infra", "web", "controllers">>) = 1
                        /\ \A q \in Created :
                              /\ q[2] = <<"core", "domain", "entities">>
                                    => EntityFileComplete(gen_files'[q])
                              /\ q[2] = <<"core", "application", "repositories">>
                                    => Len(SectionOf(gen_files'[q], "methods")) = 6
                              /\ q[2] = <<"infra", "web", "controllers">>
                                    => Len(SectionOf(gen_files'[q], "operations")) = 5
        /\ tool = "entity"
            => /\ UNCHANGED <<dirs, container_go, register_routes_go>>
               /\ pc # "emit" => UNCHANGED gen_files
               /\ \A m \in DOMAIN module_go :
                     m # MODULE_NAME => m \in DOMAIN module_go' /\ module_go'[m] = module_go[m]
               /\ \A m \in DOMAIN routes_go :
                     m # MODULE_NAME => m \in DOMAIN routes_go' /\ routes_go'[m] = routes_go[m] ]_vars

-----------------------------------------------------------------------------
(* Properties of the routes of an entity and of the run report.            *)

\* verb and path of a route head line of routes.go
Endpoint(line) == Str(<<line[2], " /">> \o SubSeq(line, 4, Len(line) - 1))

\* the routes of the current entity a routes.go registers
EndpointsIn(file) == {Endpoint(file[i]) : i \in RouteHeads(file)}

\* POST /<entity>s, GET /<entity>s/:id, GET /<entity>s, PUT /<entity>s/:id,
\* DELETE /<entity>s/:id
FiveRoutes ==
    LET base == Str(<<"/">> \o ENTITY_NAME_LOWER \o <<"s">>)
    IN  {"POST " \o base, "GET " \o base \o "/:id", "GET " \o base,
         "PUT " \o base \o "/:id", "DELETE " \o base \o "/:id"}

\* the lines a report prints below "API Endpoints created:"
ReportedOperations(o) ==
    LET k == CHOOSE i \in 1..Len(o) : o[i] = "API Endpoints created:"
    IN  {o[i] : i \in (k + 1)..Len(o)}

\* C20: the routes step registers five routes for the entity, and the routes
\* of the entity in routes.go are exactly POST /<entity>s, GET /<entity>s/:id,
\* GET /<entity>s, PUT /<entity>s/:id and DELETE /<entity>s/:id; the report
\* of the run lists exactly these routes.
C20_FiveRoutesReported ==
    [][ /\ (tool = "entity" /\ pc = "routes.go" /\ MODULE_NAME \in DOMAIN routes_go)
            => LET old == routes_go[MODULE_NAME]
                   new == routes_go'[MODULE_NAME]
               IN  /\ Cardinality(RouteHeads(new)) = Cardinality(RouteHeads(old)) + 5
                   /\ EndpointsIn(new) = FiveRoutes
                   /\ Cardinality(FiveRoutes) = 5
                   /\ pc' = "report"
        /\ (tool = "entity" /\ pc = "report")
            => /\ MSG_ENTITY_OK \in Range(out')
               /\ "API Endpoints created:" \in Range(out')
               /\ ReportedOperations(out') = FiveRoutes
               /\ ReportedOperations(out') = EndpointsIn(routes_go[MODULE_NAME])
               /\ Len(out') = Len(out) + Len(FIELDS) + 13 ]_vars

\* the run for entity User has reported: five routes /users in routes.go and
\* in the report
C20_Witness ==
    /\ tool = "none" /\ pc = "exit" /\ exit_code = 0
    /\ ENTITY_NAME = E_USER
    /\ MSG_ENTITY_OK \in Range(out)
    /\ MODULE_NAME \in DOMAIN routes_go
    /\ Cardinality(RouteHeads(routes_go[MODULE_NAME])) = 5
    /\ "GET /users" \in ReportedOperations(out)
    /\ ReportedOperations(out) = EndpointsIn(routes_go[MODULE_NAME])

-----------------------------------------------------------------------------
(* Properties of the reported CREATE TABLE statement.                      *)

\* the lines a report prints from "CREATE TABLE" to ");"
ReportedTable(o) ==
    LET a == CHOOSE i \in 1..Len(o) : o[i] = "SQL to create the table:"
        b == CHOOSE i \in 1..Len(o) : o[i] = ");"
    IN  SubSeq(o, a + 1, b)

\* the column lines of a reported statement: all but its first and last line
ReportedColumns(o) == SubSeq(ReportedTable(o), 2, Len(ReportedTable(o)) - 1)

\* C21: the reported CREATE TABLE statement of an entity with N fields has
\* N+3 column lines: id, then the N fields in the order accepted, each with the
\* storage type that was typed, upper-cased, then created_at and updated_at.
C21_CreateTableColumns ==
    [][ /\ (tool = "entity" /\ pc = "fields" /\ Len(FIELDS') = Len(FIELDS) + 1
              /\ ":" \in Range(field_input'))
            => /\ cut(FIELDS'[Len(FIELDS')], 2) = tr_upper(TypedType(field_input'))
               /\ SubSeq(FIELDS', 1, Len(FIELDS)) = FIELDS
        /\ (tool = "entity" /\ pc = "report")
            => LET cols == ReportedColumns(out')
                   N == Len(FIELDS)
               IN  /\ ReportedTable(out')[1]
                         = Str(<<"CREATE TABLE ">> \o tr_lower(ENTITY_NAME) \o <<"s (">>)
                   /\ Len(cols) = N + 3
                   /\ cols[1] = "id VARCHAR(36) PRIMARY KEY,"
                   /\ \A i \in 1..N :
                         cols[i + 1] = Str(FIELD_NAMES[i] \o <<" ">> \o cut(FIELDS[i], 2) \o <<",">>)
                   /\ cols[N + 2] = "created_at TIMESTAMP DEFAULT CURRENT_TIMESTAMP,"
                   /\ cols[N + 3]
                         = "updated_at TIMESTAMP DEFAULT CURRENT_TIMESTAMP ON UPDATE CURRENT_TIMESTAMP" ]_vars

\* a report with two fields, the second typed in lower case
C21_Witness ==
    /\ tool = "none" /\ pc = "exit" /\ exit_code = 0
    /\ MSG_ENTITY_OK \in Range(out)
    /\ Len(FIELDS) = 2
    /\ Len(ReportedColumns(out)) = 5
    /\ ReportedColumns(out)[2] = "price DECIMAL(10,2),"
    /\ ReportedColumns(out)[3] = "due_on DATE,"
    /\ field_input = DONE

-----------------------------------------------------------------------------
(* Properties of the names create-module.sh gives to Go types.             *)

\* the module names create-module.sh can be given here, normalized
ModulesTyped == {NormalizeModuleName(raw) : raw \in ModuleNamesTyped \ {<<>>}}

\* some line of the file holds the PascalCase form of the name followed by Module
TypeNamedIn(file, m) ==
    \E i \in 1..Len(file) : Contains(file[i], PublicNameOf(m) \o <<"Module">>)

\* some line of the file holds the module name
NamedIn(file, m) == \E i \in 1..Len(file) : Contains(file[i], m)

\* C22: the struct type of a generated module is the PascalCase form of the
\* module name followed by Module (user_management gives UserManagementModule),
\* in module.go and, once the module is wired, in container.go and
\* register_routes.go.
C22_PascalCaseModuleType ==
    \A m \in ModulesTyped :
        /\ m \in DOMAIN module_go
              => \E i \in 1..Len(module_go[m]) :
                    module_go[m][i] = <<"type ">> \o PublicNameOf(m) \o <<"Module", " struct {">>
        /\ NamedIn(container_go, m) => TypeNamedIn(container_go, m)
        /\ NamedIn(register_routes_go, m) => TypeNamedIn(register_routes_go, m)

-----------------------------------------------------------------------------
(* Properties of the order of the stages of a run.                         *)

\* position of a stage in its script
StageRank(t, p) ==
    IF t = "module"
    THEN (IF p = "emit" THEN 2 ELSE IF p = "container" THEN 3
          ELSE IF p = "routes" THEN 4 ELSE IF p = "report" THEN 5 ELSE 6)
    ELSE (IF p = "fields" THEN 1 ELSE IF p = "emit" THEN 2 ELSE IF p = "module.go" THEN 3
          ELSE IF p = "routes.go" THEN 4 ELSE IF p = "report" THEN 5 ELSE 6)

\* the step prints a success message
PrintsSuccess ==
    \E msg \in {MSG_MODULE_OK, MSG_ENTITY_OK} :
        msg \in Range(out') /\ (out' # out)
        /\ \E i \in 1..Len(out') : out'[i] = msg /\ (i > Len(out) \/ out[i] # msg)

\* C23: within a run the stages follow one another in the order of the
\* script and none is entered twice (the field prompt aside, which repeats
\* until 'done'): new files are written in the emit stage only, which is
\* before every patch; module.go (container.go) is patched before routes.go
\* (register_routes.go); the success message is printed by the report stage
\* only, after the last patch; a run that aborts at a precondition check
\* writes, patches and reports nothing.
C23_StageOrder ==
    [][ /\ (tool # "none" /\ tool' = tool)
            => \/ StageRank(tool', pc') = StageRank(tool, pc) + 1
               \/ (tool = "entity" /\ pc = "fields" /\ pc' = "fields")
        /\ (tool # "none" /\ tool' = "none")
            => (pc' = "exit" /\ (exit_code' = 0 => pc = "report"))
        /\ (tool = "none" /\ tool' # "none")
            => StageRank(tool', pc') = (IF tool' = "module" THEN 2 ELSE 1)
        /\ (tool # "none" /\ gen_files' # gen_files) => (tool = "entity" /\ pc = "emit")
        /\ (tool # "none" /\ dirs' # dirs) => (tool = "module" /\ pc = "emit")
        /\ (tool # "none" /\ module_go' # module_go)
            => ((tool = "module" /\ pc = "emit") \/ (tool = "entity" /\ pc = "module.go"))
        /\ (tool # "none" /\ routes_go' # routes_go)
            => ((tool = "module" /\ pc = "emit") \/ (tool = "entity" /\ pc = "routes.go"))
        /\ (container_go' # container_go) => (tool = "module" /\ pc = "container")
        /\ (register_routes_go' # register_routes_go) => (tool = "module" /\ pc = "routes")
        /\ PrintsSuccess => (tool # "none" /\ pc = "report" /\ tool' = "none" /\ exit_code' = 0)
        /\ (tool = "none" /\ tool' = "none" /\ runs' # runs)
            => (UNCHANGED fsVars /\ ~PrintsSuccess /\ exit_code' # 0) ]_vars

\* an entity run went through every stage: its messages stand in stage order
C23_Witness ==
    /\ tool = "none" /\ pc = "exit" /\ exit_code = 0
    /\ ENTITY_NAME # <<>>
    /\ \E a, b, c, d \in 1..Len(out) :
          /\ a < b /\ b < c /\ c < d
          /\ out[a] = "Created file"
          /\ \A i \in 1..Len(out) : out[i] = "Created file" => i <= a
          /\ out[b] = "Updated module.go"
          /\ out[c] = "Updated routes.go"
          /\ out[d] = MSG_ENTITY_OK
    /\ Cardinality({i \in 1..Len(out) : out[i] \in {"Updated module.go", "Updated routes.go",
                                                     MSG_ENTITY_OK}}) = 3

-----------------------------------------------------------------------------
(* Properties of repeated insertions.                                      *)

\* C24: a route insertion whose payload is already in the target file adds
\* no second copy: the registration call of the module in register_routes.go
\* (create-module.sh) and the route block of the entity in routes.go
\* (create-entity.sh).
C24_RouteInsertionsGuarded ==
    [][ /\ (tool = "module" /\ pc = "routes"
              /\ CountIn(register_routes_go, {RoutesCallLine(MODULE_NAME, ARCH_TYPE)}) > 0)
            => CountIn(register_routes_go', {RoutesCallLine(MODULE_NAME, ARCH_TYPE)})
                  = CountIn(register_routes_go, {RoutesCallLine(MODULE_NAME, ARCH_TYPE)})
        /\ (tool = "entity" /\ pc = "routes.go" /\ MODULE_NAME \in DOMAIN routes_go
              /\ BlockCount(routes_go[MODULE_NAME], EntityRouteBlock) > 0)
            => BlockCount(routes_go'[MODULE_NAME], EntityRouteBlock)
                  = BlockCount(routes_go[MODULE_NAME], EntityRouteBlock) ]_vars

-----------------------------------------------------------------------------
(* Properties of the wiring of a module as a whole.                        *)

\* the four fragments of a module in container.go, in either style
HasImport(m) == \E i \in 1..Len(container_go) : container_go[i] \in {ContainerImportLine(m, a) : a \in Styles}
HasField(m) == \E i \in 1..Len(container_go) : container_go[i] \in {ContainerFieldLine(m, a) : a \in Styles}
HasInit(m) == \E i \in 1..Len(container_go) : container_go[i] \in {ContainerInitLine(m, a) : a \in Styles}
HasReturn(m) == \E i \in 1..Len(container_go) : container_go[i] = ContainerReturnLine(m)

\* the two fragments of a module in register_routes.go, in either style
HasRouteImport(m) ==
    \E i \in 1..Len(register_routes_go) :
        register_routes_go[i] \in {RoutesImportLine(m, a) : a \in Styles}
HasRouteCall(m) ==
    \E i \in 1..Len(register_routes_go) :
        register_routes_go[i] \in {RoutesCallLine(m, a) : a \in Styles}

\* C25: once a module run has printed its success message, container.go
\* holds the import, the struct field, the initialization line and the
\* return entry of the module, or none of the four, and register_routes.go
\* holds its import and its RegisterRoutes call, or neither.
C25_WiringAllOrNothing ==
    (tool = "none" /\ MSG_MODULE_OK \in Range(out))
        => /\ \/ (HasImport(MODULE_NAME) /\ HasField(MODULE_NAME)
                    /\ HasInit(MODULE_NAME) /\ HasReturn(MODULE_NAME))
              \/ (~HasImport(MODULE_NAME) /\ ~HasField(MODULE_NAME)
                    /\ ~HasInit(MODULE_NAME) /\ ~HasReturn(MODULE_NAME))
           /\ HasRouteImport(MODULE_NAME) <=> HasRouteCall(MODULE_NAME)

-----------------------------------------------------------------------------
(* Properties of placeholders and bound values.                            *)

\* C26: in the repository of either style, for N >= 1 fields, INSERT has N+3
\* columns, N+3 placeholders and N+3 bound values; UPDATE has N+2
\* placeholders and N+2 bound values, the last one the identifier that the
\* WHERE clause compares.
C26_PlaceholdersMatchValues ==
    Emitted =>
        \A f \in {gen_files[RepoPath], OtherStyleRepo} :
            LET N == Len(FIELDS)
                upd == SectionOf(f, "Update.args")
            IN  /\ N >= 1
                /\ Len(SectionOf(f, "Save.columns")) = N + 3
                /\ Placeholders(SectionOf(f, "Save.placeholders")) = N + 3
                /\ Len(SectionOf(f, "Save.args")) = N + 3
                /\ Placeholders(SectionOf(f, "Update.set")) = N + 1
                /\ Placeholders(SectionOf(f, "Update.where")) = 1
                /\ Len(upd) = N + 2
                /\ Attribute(upd[Len(upd)]) = <<"Id">>
                /\ \A i \in 1..(Len(upd) - 1) : Attribute(upd[i]) # <<"Id">>
                /\ SectionOf(f, "Update.where") = << <<"WHERE id = ", "?">> >>

\* a flat run with one field: four placeholders in INSERT, three in UPDATE
C26_Witness ==
    /\ Emitted
    /\ ARCH_TYPE = "4tier"
    /\ Len(FIELDS) = 1
    /\ Placeholders(SectionOf(gen_files[RepoPath], "Save.placeholders")) = 4
    /\ Placeholders(SectionOf(gen_files[RepoPath], "Update.set"))
          + Placeholders(SectionOf(gen_files[RepoPath], "Update.where")) = 3
    /\ Len(SectionOf(gen_files[RepoPath], "Update.args")) = 3

-----------------------------------------------------------------------------
(* Properties of the imports of the generated files.                       *)

\* the file imports the time package
ImportsTime(f) == <<"time">> \in Range(SectionOf(f, "import"))

\* the text of the file refers to the time package
UsesTime(f) ==
    \E j \in 1..Len(f) :
        /\ f[j][1] # "import"
        /\ \E k \in 1..Len(f[j][2]) :
              \E p \in Range(f[j][2][k]) : p \in {"time.Time", "time.Now().UTC()"}

\* C27: each generated file imports the time package exactly when its text
\* uses time.Time or time.Now, whatever the fields and the style.
C27_TimeImportIffUsed ==
    Emitted =>
        \A i \in 1..Len(EntityFiles(ARCH_TYPE)) :
            LET f == gen_files[EntityFiles(ARCH_TYPE)[i][1]]
            IN  ImportsTime(f) <=> UsesTime(f)


\* the paths the current entity's files are written to
EntityPaths == {EntityFiles(ARCH_TYPE)[i][1] : i \in 1..Len(EntityFiles(ARCH_TYPE))}

\* the last run ended with the success report of the entity still in ENTITY_NAME
LastRunMadeEntity ==
    /\ tool = "none" /\ exit_code = 0 /\ ENTITY_NAME # <<>>
    /\ out # <<>>
    /\ out[Len(out)] = ReportEndpoints[Len(ReportEndpoints)]

\* C28: when an entity has just been generated in a module and the next run is
\* accepted for the same module with an entity name that differs as typed, the
\* two runs have no file path, no table name and no route in common.
C28_DistinctNamesDistinctOutputs ==
    [][ (LastRunMadeEntity /\ EntityStartStep /\ tool' = "entity"
            /\ MODULE_NAME' = MODULE_NAME /\ ENTITY_NAME' # ENTITY_NAME)
            => /\ EntityPaths' \cap EntityPaths = {}
               /\ ReportTable'[1] # ReportTable[1]
               /\ FiveRoutes' \cap FiveRoutes = {} ]_vars


\* the (verb, path) pairs a routes.go registers with generated route lines
RegisteredIn(file) ==
    {Endpoint(file[i]) : i \in {j \in 1..Len(file) :
        Len(file[j]) > 4 /\ file[j][1] = "\trouter." /\ file[j][3] = "(\"/"}}

\* C29: the routes.go files of two different modules register no (verb, path)
\* pair in common, so entities generated for distinct (module, entity) pairs
\* never make the combined route table hold a pair twice.
C29_NoDuplicateRouteAcrossModules ==
    \A m1 \in DOMAIN routes_go, m2 \in DOMAIN routes_go :
        m1 # m2 => RegisteredIn(routes_go[m1]) \cap RegisteredIn(routes_go[m2]) = {}


\* no element occurs twice in a sequence
PairwiseDistinct(s) == \A i \in 1..Len(s), j \in 1..Len(s) : i # j => s[i] # s[j]

\* the members of the generated struct: ID, one per field, CreatedAt, UpdatedAt
StructMembers ==
    << <<"ID">> >> \o [i \in 1..Len(FIELDS) |-> f_pascal(FIELDS[i])]
        \o << <<"CreatedAt">>, <<"UpdatedAt">> >>

\* C30: once the collector has accepted a field list (here: one whose names
\* are all non-empty) and generation starts, no column name occurs twice among
\* id, the fields, created_at and updated_at, and no member name occurs twice
\* in the generated struct.
C30_ColumnNamesDistinct ==
    (tool = "entity" /\ pc = "emit"
        /\ \A i \in 1..Len(FIELDS) : f_snake(FIELDS[i]) # <<>> /\ f_pascal(FIELDS[i]) # <<>>)
        => /\ PairwiseDistinct(ColumnList)
           /\ PairwiseDistinct(StructMembers)

====
